---- MODULE Spec2Model ----
(***************************************************************************)
(* A model of StressFieldInput_Kernel.py: the deck scanner that injects    *)
(* element sets (inject_element_sets), the boundary/predefined-field       *)
(* locator (find_stress_injection_line), the per-scale stress injector     *)
(* (inject_stress_field, driven by create_jobs), the stress assigner       *)
(* (define_stresses), the mesh characterization (characterize_mesh), the   *)
(* pre-flight checks (run_checks) and the orchestrator (run_plugin).       *)
(*                                                                         *)
(* A Python string is a sequence of tokens and '+' is \o, so the prefix    *)
(* tests of the scanners (line[:12], line[0], line[0:4]) are computed on   *)
(* the line's text and never assumed.  Line and part indices are 0-based   *)
(* as in the source; the k-th element of a Python list l is l[k + 1].      *)
(***************************************************************************)
EXTENDS Integers, Sequences, FiniteSets, TLC

VARIABLES
    pc,                         \* the function whose loop is running
    exc,                        \* "" or the exception that ended the run
    mesh_data,                  \* one slot per part instance
    default_input,              \* the line buffer (one list object, shared)
    next_line,                  \* scanners' line cursor
    sets_to_inject,             \* inject_element_sets: pending part indices
    current_part_index,         \* inject_element_sets: -1 = scanning for a part
    bc_section_index,           \* find_stress_injection_line
    line_index,                 \* create_jobs: the index the scanners returned
    predefined,                 \* create_jobs: predefined-fields header seen
    scale_args,                 \* <<stress_scale_counts, min, max>>
    i,                          \* create_jobs: loop counter
    files,                      \* the files written, in order of writing
    jobs,                       \* create_jobs: the jobs created
    stress_script,              \* the script define_stresses loads
    part_index,                 \* define_stresses: instance cursor
    category_pos,               \* define_stresses: position in keys()
    calls,                      \* history: arguments of every calculate_stress call
    input0,                     \* history: the deck as read from the file
    base_deck,                  \* history: the buffer inject_element_sets returned
    scan_end,                   \* history: the index inject_element_sets returned
    injections,                 \* history: one record per element-set injection
    out,                        \* the messages printed, in order
    host,                       \* run_plugin's arguments and the host's registries
    instances,                  \* characterize_mesh: the assembly's instances
    categorize,                 \* characterize_mesh: a callable get_category exists
    instance_index,             \* characterize_mesh: instance cursor
    element_index,              \* characterize_mesh: element cursor
    part_mesh_data,             \* characterize_mesh: the categories of the instance
    no_mesh                     \* characterize_mesh: no element seen yet

vars == <<pc, exc, mesh_data, default_input, next_line, sets_to_inject,
          current_part_index, bc_section_index, line_index, predefined,
          scale_args, i, files, jobs, stress_script, part_index, category_pos,
          calls, input0, base_deck, scan_end, injections, out, host,
          instances, categorize, instance_index, element_index,
          part_mesh_data, no_mesh>>

\* the variables of characterize_mesh and of the host
mesh_vars == <<host, instances, categorize, instance_index, element_index,
               part_mesh_data, no_mesh>>

(***************************************************************************)
(* Bounds of the model.                                                    *)
(***************************************************************************)
MaxInst == 2
MaxCats == 2
MaxScales == 2
MaxElems == 17
MaxMeshElems == 2

\* element_limit, the wrap width of a label line
element_limit == 8

(***************************************************************************)
(* Python lists.                                                           *)
(***************************************************************************)
\* the lines at p are written over
SliceOverwrite(lst, p, xs) ==
    LET q == IF p > Len(lst) THEN Len(lst) ELSE p
    IN  SubSeq(lst, 1, q) \o xs \o SubSeq(lst, q + Len(xs) + 1, Len(lst))

\* lst[p:p] = xs  (a slice past the end appends)
SliceInsert(lst, p, xs) ==
    LET q == IF p > Len(lst) THEN Len(lst) ELSE p
    IN  SubSeq(lst, 1, q) \o xs \o SubSeq(lst, q + 1, Len(lst))

\* np.delete(arr, k)
NpDelete(arr, k) == SubSeq(arr, 1, k) \o SubSeq(arr, k + 2, Len(arr))

\* line[:n] == prefix, for a prefix that ends on a token boundary
StartsWith(line, prefix) ==
    /\ Len(line) >= Len(prefix)
    /\ SubSeq(line, 1, Len(prefix)) = prefix

\* str(n) of an integer
Str(n) == <<ToString(n)>>

RECURSIVE Flatten(_)
Flatten(ss) == IF ss = <<>> THEN <<>> ELSE Head(ss) \o Flatten(Tail(ss))

(***************************************************************************)
(* Python floats.  A float is a binary number of FlPrecision significant   *)
(* bits (53 in the interpreter), written here as a multiple of the         *)
(* smallest spacing, and every operation rounds its exact result to the    *)
(* nearest float, a tie to the even significand.                           *)
(***************************************************************************)
FlPrecision == 4
FlMax == 20

RECURSIVE Pow2(_)
Pow2(e) == IF e = 0 THEN 1 ELSE 2 * Pow2(e - 1)

Abs(x) == IF x < 0 THEN -x ELSE x

\* the exponent of the spacing of the floats around a / den
RECURSIVE FlExponent(_, _, _)
FlExponent(a, den, e) ==
    IF a < Pow2(FlPrecision + e) * den THEN e ELSE FlExponent(a, den, e + 1)

\* a / d rounded to the nearest whole number, a tie to the even one
RoundHalfEven(a, d) ==
    LET f == a \div d
        r == a - f * d
    IN  IF 2 * r < d THEN f
        ELSE IF 2 * r > d THEN f + 1
        ELSE IF f % 2 = 0 THEN f ELSE f + 1

\* the float nearest to num / den (den > 0)
FlRound(num, den) ==
    LET a == Abs(num)
        g == Pow2(FlExponent(a, den, 0))
        m == g * RoundHalfEven(a, den * g)
    IN  IF num < 0 THEN -m ELSE m

\* x is a float
IsFloat(x) == FlRound(x, 1) = x

\* the floats of the model's inputs
Floats == {x \in (-FlMax)..FlMax : IsFloat(x)}

FlAdd(a, b) == FlRound(a + b, 1)
FlSub(a, b) == FlRound(a - b, 1)
FlMul(a, b) == FlRound(a * b, 1)
FlDiv(a, b) == FlRound(a, b)

(***************************************************************************)
(* The deck's lines.                                                       *)
(***************************************************************************)
PartPrefix == <<"*", "Part, name=">>
ElementPrefix == <<"*", "Element, type=">>
ElsetPrefix == <<"*", "Elset, elset=">>
TerminatorPrefix == <<"*", "* -">>
BoundaryConditionsLine == <<"*", "* BOUNDARY CONDITIONS">>
PredefinedFieldsLine == <<"*", "* PREDEFINED FIELDS">>
BlankCommentLine == <<"*", "* ">>
InitialConditionsLine == <<"*", "Initial Conditions, type=STRESS">>

HeadingLine == <<"*", "Heading">>
PartLine(p) == PartPrefix \o p
NodeLine == <<"*", "Node">>
CoordLine == <<" ", "     1,  0.,  0.,  0.">>
ElementLine == ElementPrefix \o <<"C3D8R">>
ConnLine == <<"1", ", 1, 2, 3, 4, 5, 6, 7, 8">>
EndPartLine == <<"*", "End Part">>
TerminatorLine == TerminatorPrefix \o <<"-------------------">>

\* the part section job.writeInput() writes for part p
PartBlock(p) ==
    <<PartLine(p), NodeLine, CoordLine, ElementLine, ConnLine, EndPartLine>>

\* the same section cut short: no marker follows the element lines
TruncatedPartBlock(p) ==
    <<PartLine(p), NodeLine, CoordLine, ElementLine, ConnLine>>

\* the parts of the deck, in order (the mesh data range over both parts, so
\* the order B, A is the order A, B with the names exchanged)
PartOrders == {<<<<"A">>>>, <<<<"A">>, <<"B">>>>}

DeckTails ==
    { <<BoundaryConditionsLine, BlankCommentLine, TerminatorLine>>,
      <<BoundaryConditionsLine, PredefinedFieldsLine, BlankCommentLine,
        TerminatorLine>>,
      <<TerminatorLine, PredefinedFieldsLine, BoundaryConditionsLine,
        BlankCommentLine, TerminatorLine, PredefinedFieldsLine,
        TerminatorLine>>,
      <<PredefinedFieldsLine, TerminatorLine, BoundaryConditionsLine,
        BlankCommentLine, PredefinedFieldsLine, TerminatorLine>>,
      <<TerminatorLine, PredefinedFieldsLine, BoundaryConditionsLine>>,
      <<BlankCommentLine>> }

\* what read_lines_from_file(job.name + '.inp') may return
Decks ==
    { <<HeadingLine>> \o Flatten([k \in 1..Len(o) |-> PartBlock(o[k])]) \o t :
        o \in PartOrders, t \in DeckTails }
    \cup { <<HeadingLine>> \o TruncatedPartBlock(<<"A">>) }

(***************************************************************************)
(* The mesh data.  MeshElementData and MeshElementCategory are imported    *)
(* by the kernel; they are modelled as records with the attributes the     *)
(* kernel reads through their getters.                                     *)
(***************************************************************************)
PartNames == {<<"A">>, <<"B">>}

InstanceName(k) == <<"Inst-", ToString(k)>>

\* MeshElementData(instance_key, part_name, label, x, y, z)
MeshElementData(inst, part, label) ==
    [inst |-> inst, part |-> part, label |-> label,
     x |-> label, y |-> label + 1, z |-> 0]

ZeroStress == <<0, 0, 0, 0, 0, 0>>

\* the stress script's calculate_stress(part, x, y, z): a script that
\* defines it everywhere, one whose function raises for some points, and
\* one that does not define it (the call raises NameError).  The value
\* is a vector of six floats
StressScripts == {"good", "partial", "undefined"}

calculate_stress(script, part, x, y, z) ==
    [raised |-> \/ script = "undefined"
                \/ script = "partial" /\ x >= 200,
     value  |-> <<FlRound(x, 1), FlRound(y, 1), FlRound(z, 1), FlAdd(x, y),
                  IF part = <<"A">> THEN 1 ELSE 2, 1>>]

\* MeshElementCategory.get_first_element()
get_first_element(category) == category.elems[1]

\* MeshElementCategory.get_set_name()
get_set_name(category) == <<"Set-">> \o category.id

\* the arguments of the call of calculate_stress for a category
StressCallArgs(mesh_category) ==
    LET element == get_first_element(mesh_category)
    IN  <<element.part, element.x, element.y, element.z>>

\* the call of calculate_stress for a category raises
StressCallRaises(script, mesh_category) ==
    LET args == StressCallArgs(mesh_category)
    IN  calculate_stress(script, args[1], args[2], args[3], args[4]).raised

\* a call that raises leaves the category as it is
AssignedStressNoDefault(script, mesh_category) ==
    LET args == StressCallArgs(mesh_category)
        r == calculate_stress(script, args[1], args[2], args[3], args[4])
    IN  IF r.raised THEN mesh_category.stress ELSE r.value

\* the value define_stresses assigns to a category: what the call returns,
\* or the zero vector when it raises
AssignedStress(script, mesh_category) ==
    LET args == StressCallArgs(mesh_category)
        r == calculate_stress(script, args[1], args[2], args[3], args[4])
    IN  IF r.raised THEN ZeroStress ELSE r.value

\* the j-th category characterize_mesh creates for an instance: n elements
\* in discovery order, labels falling when desc
MeshElementCategory(inst, part, j, n, desc) ==
    [id |-> <<"K", ToString(j)>>, part |-> part, inst |-> inst,
     elems |-> [k \in 1..n |->
                  MeshElementData(inst, part,
                      100 * j + (IF desc THEN n + 1 - k ELSE k))],
     stress |-> <<>>]

\* part_mesh_data.keys(): a Python 2 dict lists its keys in hash order,
\* which need not be the order of insertion.  korder[k] is the insertion
\* rank of the k-th key listed.
KeyOrders(n) == {[k \in 1..n |-> k], [k \in 1..n |-> n + 1 - k]}

Keys(slot) == [k \in 1..Len(slot.korder) |-> slot.cats[slot.korder[k]]]

NoneSlot == [none |-> TRUE, cats |-> <<>>, korder |-> <<>>]
EmptySlot == [none |-> FALSE, cats |-> <<>>, korder |-> <<>>]

IsEmptySlot(slot) == slot.none \/ Len(slot.cats) <= 0

SlotShapes ==
    {[kind |-> "none"], [kind |-> "empty"]}
    \cup { [kind |-> "mesh", part |-> p, ncat |-> n, korder |-> o] :
             p \in PartNames, n \in 1..MaxCats, o \in UNION {KeyOrders(m) : m \in 1..MaxCats} }

ShapeOk(sh) == sh.kind = "mesh" => sh.korder \in KeyOrders(sh.ncat)

\* slot k of mesh_data as characterize_mesh builds it (category j holds j
\* elements)
MeshSlot(k, sh) ==
    IF sh.kind = "none" THEN NoneSlot
    ELSE IF sh.kind = "empty" THEN EmptySlot
    ELSE [none |-> FALSE,
          cats |-> [j \in 1..sh.ncat |->
                      MeshElementCategory(InstanceName(k), sh.part, j, j, FALSE)],
          korder |-> sh.korder]

\* the mesh data characterize_mesh may return: at least one instance has
\* elements
Meshes ==
    UNION { { [k \in 1..n |-> MeshSlot(k, f[k])] :
                f \in { g \in [1..n -> {sh \in SlotShapes : ShapeOk(sh)}] :
                          \E k \in 1..n : g[k].kind = "mesh" } } :
            n \in 1..MaxInst }

\* mesh_data with every category's stress defined as define_stresses does
WithStresses(mesh, script) ==
    [k \in 1..Len(mesh) |->
        [mesh[k] EXCEPT !.cats =
            [j \in 1..Len(mesh[k].cats) |->
                [mesh[k].cats[j] EXCEPT !.stress =
                    AssignedStress(script, mesh[k].cats[j])]]]]

(***************************************************************************)
(* inject_element_sets(mesh_data, default_input)                           *)
(***************************************************************************)
IsPartLine(line) == StartsWith(line, PartPrefix)

\* current_part = line[12:]
PartNameOf(line) == SubSeq(line, Len(PartPrefix) + 1, Len(line))

\* element sections are not skipped
IsSkippedNoElementSection(line) ==
    \/ line[1] = " "
    \/ line[1] # "*"

\* the lines the injecting mode skips: line[0] == ' ', line[:15] ==
\* '*Element, type=', and lines that do not start with '*'
IsSkippedWhileInjecting(line) ==
    \/ line[1] = " "
    \/ line[1] = "*" /\ StartsWith(line, ElementPrefix)
    \/ line[1] # "*"

\* empty entries are not told from the current part
RECURSIVE MatchLoopTakesEmpty(_, _, _)
MatchLoopTakesEmpty(sets, set_index, current_part) ==
    IF set_index >= Len(sets)
    THEN [sets |-> sets, current_part_index |-> -1]
    ELSE LET part_element_categories == mesh_data[sets[set_index + 1] + 1]
         IN  IF \/ IsEmptySlot(part_element_categories)
                \/ Keys(part_element_categories)[1].part = current_part
             THEN [sets |-> NpDelete(sets, set_index),
                   current_part_index |-> sets[set_index + 1]]
             ELSE MatchLoopTakesEmpty(sets, set_index + 1, current_part)

\* the inner while loop over sets_to_inject, from set_index on: empty
\* entries are deleted, the first entry of the current part is taken
RECURSIVE MatchLoop(_, _, _)
MatchLoop(sets, set_index, current_part) ==
    IF set_index >= Len(sets)
    THEN [sets |-> sets, current_part_index |-> -1]
    ELSE LET part_element_categories == mesh_data[sets[set_index + 1] + 1]
         IN  IF IsEmptySlot(part_element_categories)
             THEN MatchLoop(NpDelete(sets, set_index), set_index, current_part)
             ELSE IF Keys(part_element_categories)[1].part = current_part
                  THEN [sets |-> NpDelete(sets, set_index),
                        current_part_index |-> sets[set_index + 1]]
                  ELSE MatchLoop(sets, set_index + 1, current_part)

\* a label line is written only when it is full
FlushLineWhenFull(element_counter, k, n) ==
    element_counter = element_limit

\* "if element_counter == element_limit or i >= (len(elements) - 1)"
FlushLine(element_counter, k, n) ==
    element_counter = element_limit \/ k >= n - 1

\* the loop over a category's elements, from element k on
RECURSIVE WriteElements(_, _, _, _, _, _)
WriteElements(buf, nl, elements, k, line, element_counter) ==
    IF k >= Len(elements)
    THEN [buf |-> buf, nl |-> nl]
    ELSE LET line1 == line \o Str(elements[k + 1].label) \o <<",">>
             counter1 == element_counter + 1
         IN  IF FlushLine(counter1, k, Len(elements))
             THEN WriteElements(SliceInsert(buf, nl, <<line1>>), nl + 1,
                                elements, k + 1, <<>>, 0)
             ELSE WriteElements(buf, nl, elements, k + 1,
                                line1 \o <<" ">>, counter1)

\* the loop over part_element_categories.keys(), from the k-th key on
RECURSIVE InjectCategories(_, _, _, _)
InjectCategories(buf, nl, keys, k) ==
    IF k > Len(keys)
    THEN [buf |-> buf, nl |-> nl]
    ELSE LET b1 == SliceInsert(buf, nl,
                       <<ElsetPrefix \o get_set_name(keys[k])>>)
             w == WriteElements(b1, nl + 1, keys[k].elems, 0, <<>>, 0)
         IN  InjectCategories(w.buf, w.nl, keys, k + 1)

\* the scan ends as soon as nothing is pending
InjectionCompleteWhenNonePending(sets, part) == Len(sets) <= 0

\* "if len(sets_to_inject) <= 0: if current_part_index < 0: break"
InjectionComplete(sets, part) == Len(sets) <= 0 /\ part < 0

\* the end of an iteration that reaches the completion check: break and
\* return (default_input, next_line) to create_jobs, or loop
EndOfScanIteration(buf, nl, sets, part) ==
    IF InjectionComplete(sets, part)
    THEN /\ pc' = "find_stress_injection_line"
         /\ line_index' = nl
         /\ base_deck' = buf
         /\ scan_end' = nl
    ELSE UNCHANGED <<pc, line_index, base_deck, scan_end>>

Scanning == pc = "inject_element_sets" /\ exc = ""

\* default_input[next_line] past the end of the list
ScanIndexError ==
    /\ Scanning
    /\ next_line >= Len(default_input)
    /\ exc' = "IndexError"
    /\ UNCHANGED <<pc, mesh_data, default_input, next_line, sets_to_inject,
                   current_part_index, bc_section_index, line_index,
                   predefined, scale_args, i, files, jobs, stress_script,
                   part_index, category_pos, calls, input0, base_deck,
                   scan_end, injections,
                   out, mesh_vars>>

\* scanning for a part, the line starts no part: continue
ScanSkipLine ==
    /\ Scanning
    /\ next_line < Len(default_input)
    /\ current_part_index < 0
    /\ ~IsPartLine(default_input[next_line + 1])
    /\ next_line' = next_line + 1
    /\ UNCHANGED <<pc, exc, mesh_data, default_input, sets_to_inject,
                   current_part_index, bc_section_index, line_index,
                   predefined, scale_args, i, files, jobs, stress_script,
                   part_index, category_pos, calls, input0, base_deck,
                   scan_end, injections,
                   out, mesh_vars>>

\* scanning for a part, a part definition is reached
ScanPartHeader ==
    /\ Scanning
    /\ next_line < Len(default_input)
    /\ current_part_index < 0
    /\ IsPartLine(default_input[next_line + 1])
    /\ LET m == MatchLoop(sets_to_inject, 0,
                          PartNameOf(default_input[next_line + 1]))
           nl == IF m.current_part_index >= 0
                 THEN next_line + 2 ELSE next_line + 1
       IN  /\ sets_to_inject' = m.sets
           /\ current_part_index' = m.current_part_index
           /\ next_line' = nl
           /\ injections' =
                IF m.current_part_index >= 0
                THEN Append(injections, [part |-> m.current_part_index,
                                         header |-> next_line, at |-> -1])
                ELSE injections
           /\ EndOfScanIteration(default_input, nl, m.sets,
                                 m.current_part_index)
    /\ UNCHANGED <<exc, mesh_data, default_input, bc_section_index,
                   predefined, scale_args, i, files, jobs, stress_script,
                   part_index, category_pos, calls, input0,
                   out, mesh_vars>>

\* injecting, the line is node or element data or an element section
InjectSkipLine ==
    /\ Scanning
    /\ next_line < Len(default_input)
    /\ current_part_index >= 0
    /\ IsSkippedWhileInjecting(default_input[next_line + 1])
    /\ next_line' = next_line + 1
    /\ UNCHANGED <<pc, exc, mesh_data, default_input, sets_to_inject,
                   current_part_index, bc_section_index, line_index,
                   predefined, scale_args, i, files, jobs, stress_script,
                   part_index, category_pos, calls, input0, base_deck,
                   scan_end, injections,
                   out, mesh_vars>>

\* injecting, the set injection point is reached
InjectSets ==
    /\ Scanning
    /\ next_line < Len(default_input)
    /\ current_part_index >= 0
    /\ ~IsSkippedWhileInjecting(default_input[next_line + 1])
    /\ LET w == InjectCategories(default_input, next_line,
                                 Keys(mesh_data[current_part_index + 1]), 1)
       IN  /\ default_input' = w.buf
           /\ next_line' = w.nl + 1
           /\ current_part_index' = -1
           /\ injections' =
                [injections EXCEPT ![Len(injections)].at = next_line]
           /\ EndOfScanIteration(w.buf, w.nl + 1, sets_to_inject, -1)
    /\ UNCHANGED <<exc, mesh_data, sets_to_inject, bc_section_index,
                   predefined, scale_args, i, files, jobs, stress_script,
                   part_index, category_pos, calls, input0,
                   out, mesh_vars>>

(***************************************************************************)
(* find_stress_injection_line(default_input, next_line)                    *)
(***************************************************************************)
\* the arguments run_checks accepts, with the scale factors whole numbers:
\* one count with min = max, or several counts with min < max
ScaleArgs ==
    { <<count, min, min + d * (count - 1)>> :
        count \in 1..MaxScales, min \in {1}, d \in {1, 2} }

Finding == pc = "find_stress_injection_line" /\ exc = ""

\* default_input[next_line] past the end of the list
FindIndexError ==
    /\ Finding
    /\ next_line >= Len(default_input)
    /\ exc' = "IndexError"
    /\ UNCHANGED <<pc, mesh_data, default_input, next_line, sets_to_inject,
                   current_part_index, bc_section_index, line_index,
                   predefined, scale_args, i, files, jobs, stress_script,
                   part_index, category_pos, calls, input0, base_deck,
                   scan_end, injections,
                   out, mesh_vars>>

\* the BC section is not found yet and the line is not its marker
FindSkipBeforeBC ==
    /\ Finding
    /\ next_line < Len(default_input)
    /\ bc_section_index < 0
    /\ default_input[next_line + 1] # BoundaryConditionsLine
    /\ next_line' = next_line + 1
    /\ UNCHANGED <<pc, exc, mesh_data, default_input, sets_to_inject,
                   current_part_index, bc_section_index, line_index,
                   predefined, scale_args, i, files, jobs, stress_script,
                   part_index, category_pos, calls, input0, base_deck,
                   scan_end, injections,
                   out, mesh_vars>>

\* the BC section is found
FindBoundaryConditions ==
    /\ Finding
    /\ next_line < Len(default_input)
    /\ bc_section_index < 0
    /\ default_input[next_line + 1] = BoundaryConditionsLine
    /\ bc_section_index' = next_line
    /\ next_line' = next_line + 1
    /\ UNCHANGED <<pc, exc, mesh_data, default_input, sets_to_inject,
                   current_part_index, line_index, predefined, scale_args,
                   i, files, jobs, stress_script, part_index, category_pos,
                   calls, input0, base_deck, scan_end, injections,
                   out, mesh_vars>>

\* in the BC section, the predefined-fields header
FindPredefinedFields ==
    /\ Finding
    /\ next_line < Len(default_input)
    /\ bc_section_index >= 0
    /\ default_input[next_line + 1] = PredefinedFieldsLine
    /\ predefined' = TRUE
    /\ next_line' = next_line + 1
    /\ UNCHANGED <<pc, exc, mesh_data, default_input, sets_to_inject,
                   current_part_index, bc_section_index, line_index,
                   scale_args, i, files, jobs, stress_script, part_index,
                   category_pos, calls, input0, base_deck, scan_end, injections,
                   out, mesh_vars>>

\* any line that starts with '*' ends the section
IsTerminatorAnyMarker(line) == line[1] = "*"

\* "if line[0:4] == '** -'"
IsTerminator(line) == StartsWith(line, TerminatorPrefix)

\* in the BC section, any other line that is not the terminator
FindSkipInSection ==
    /\ Finding
    /\ next_line < Len(default_input)
    /\ bc_section_index >= 0
    /\ default_input[next_line + 1] # PredefinedFieldsLine
    /\ ~IsTerminator(default_input[next_line + 1])
    /\ next_line' = next_line + 1
    /\ UNCHANGED <<pc, exc, mesh_data, default_input, sets_to_inject,
                   current_part_index, bc_section_index, line_index,
                   predefined, scale_args, i, files, jobs, stress_script,
                   part_index, category_pos, calls, input0, base_deck,
                   scan_end, injections,
                   out, mesh_vars>>

\* in the BC section, the terminator: return (inject_index, predefined) to
\* create_jobs, which sets up its loop over the stress scales (the scale
\* arguments are those of the run, or are drawn here when create_jobs is
\* run on its own)
FindTerminator ==
    /\ Finding
    /\ next_line < Len(default_input)
    /\ bc_section_index >= 0
    /\ default_input[next_line + 1] # PredefinedFieldsLine
    /\ IsTerminator(default_input[next_line + 1])
    /\ line_index' = next_line
    /\ next_line' = next_line + 1
    /\ pc' = "create_jobs"
    /\ \E args \in (IF scale_args = <<>> THEN ScaleArgs ELSE {scale_args}) :
          scale_args' = args
    /\ i' = 0
    /\ jobs' = <<>>
    /\ UNCHANGED <<exc, mesh_data, default_input, sets_to_inject,
                   current_part_index, bc_section_index, predefined, files,
                   stress_script, part_index, category_pos, calls, input0,
                   base_deck, scan_end, injections,
                   out, mesh_vars>>

(***************************************************************************)
(* inject_stress_field and the loop of create_jobs                         *)
(***************************************************************************)
\* MeshElementCategory.get_stress()
get_stress(mesh_category) == mesh_category.stress

\* MeshElementCategory.get_instance_name()
get_instance_name(mesh_category) == mesh_category.inst

\* the stress is inserted as it is
UnscaledStress(stress_scale, stress) == stress

\* stress = stress_scale * stress, component by component
ScaledStress(stress_scale, stress) ==
    [k \in 1..Len(stress) |-> FlMul(stress_scale, stress[k])]

\* instance + '.' + set name + ',' and then str(value) + ',' per component
StressLine(mesh_category, stress_scale) ==
    LET stress == ScaledStress(stress_scale, get_stress(mesh_category))
    IN  get_instance_name(mesh_category) \o <<".">>
          \o get_set_name(mesh_category)
          \o <<",">>
          \o Flatten([k \in 1..Len(stress) |-> Str(stress[k]) \o <<",">>])

\* the loop over part_mesh_data.keys(), from the k-th key on: every line
\* goes in at inject_index, which the loop does not advance
RECURSIVE InjectCategoryStresses(_, _, _, _, _)
InjectCategoryStresses(lines, inject_index, stress_scale, keys, k) ==
    IF k > Len(keys)
    THEN lines
    ELSE InjectCategoryStresses(
             SliceInsert(lines, inject_index,
                         <<StressLine(keys[k], stress_scale)>>),
             inject_index, stress_scale, keys, k + 1)

\* the loop over the part instances, from part p on
RECURSIVE InjectPartStresses(_, _, _, _, _)
InjectPartStresses(mesh, lines, inject_index, stress_scale, p) ==
    IF p >= Len(mesh)
    THEN lines
    ELSE IF mesh[p + 1].none
         THEN InjectPartStresses(mesh, lines, inject_index, stress_scale,
                                 p + 1)
         ELSE InjectPartStresses(mesh,
                  InjectCategoryStresses(lines, inject_index, stress_scale,
                                         Keys(mesh[p + 1]), 1),
                  inject_index, stress_scale, p + 1)

\* the header is one line short
InjectStressHeaderTwoLines(lines, inject_index, predefined_fields_present) ==
    IF ~predefined_fields_present
    THEN [lines |-> SliceInsert(
                      SliceInsert(
                        SliceInsert(lines, inject_index,
                                    <<BlankCommentLine>>),
                        inject_index + 1, <<PredefinedFieldsLine>>),
                      inject_index + 2, <<InitialConditionsLine>>),
          inject_index |-> inject_index + 3]
    ELSE [lines |-> SliceInsert(lines, inject_index,
                                <<InitialConditionsLine>>),
          inject_index |-> inject_index + 1]

\* the header for the predefined field, then the marker line
InjectStressHeader(lines, inject_index, predefined_fields_present) ==
    IF ~predefined_fields_present
    THEN [lines |-> SliceInsert(
                      SliceInsert(
                        SliceInsert(
                          SliceInsert(lines, inject_index,
                                      <<BlankCommentLine>>),
                          inject_index + 1, <<PredefinedFieldsLine>>),
                        inject_index + 2, <<BlankCommentLine>>),
                      inject_index + 3, <<InitialConditionsLine>>),
          inject_index |-> inject_index + 4]
    ELSE [lines |-> SliceInsert(lines, inject_index,
                                <<InitialConditionsLine>>),
          inject_index |-> inject_index + 1]

\* the list "lines" after inject_stress_field(mesh_data, stress_scale,
\* default_input, inject_index, predefined_fields_present)
inject_stress_field(mesh, stress_scale, buffer, inject_index, fields_present) ==
    LET h == InjectStressHeader(buffer, inject_index, fields_present)
    IN  InjectPartStresses(mesh, h.lines, h.inject_index, stress_scale, 0)

\* 'stress_input_scale_' + str(stress_scale) + '.inp'
InputFileName(stress_scale) ==
    <<"stress_input_scale_">> \o Str(stress_scale) \o <<".inp">>

\* the steps are counted from 1
StressScaleFromOne(args, k) ==
    IF args[1] = 1
    THEN args[2]
    ELSE FlAdd(args[2],
               FlDiv(FlMul(k + 1, FlSub(args[3], args[2])), args[1] - 1))

\* the stress scale of iteration k of create_jobs:
\* stress_scale_min + (i + 0.0)*(stress_scale_max - stress_scale_min)
\*     /(stress_scale_counts - 1)
StressScale(args, k) ==
    IF args[1] = 1
    THEN args[2]
    ELSE FlAdd(args[2],
               FlDiv(FlMul(k, FlSub(args[3], args[2])), args[1] - 1))

\* one iteration of the loop of create_jobs.  "lines = default_input" binds
\* the caller's list object and copies nothing, so the lines that
\* inject_stress_field inserts are inserted into default_input
InjectStressField ==
    /\ pc = "create_jobs" /\ exc = ""
    /\ i < scale_args[1]
    /\ LET stress_scale == StressScale(scale_args, i)
           lines == inject_stress_field(mesh_data, stress_scale,
                                        default_input, line_index, predefined)
       IN  /\ default_input' = lines
           /\ files' = Append(files, [name |-> InputFileName(stress_scale),
                                      scale |-> stress_scale,
                                      lines |-> lines])
           /\ jobs' = Append(jobs, [name |-> <<"_Stress_Input_Scale_">>
                                               \o Str(i + 1),
                                    input |-> InputFileName(stress_scale)])
    /\ out' = Append(out, "---> Creating job for stress factor")
    /\ i' = i + 1
    /\ UNCHANGED <<pc, exc, mesh_data, next_line, sets_to_inject,
                   current_part_index, bc_section_index, line_index,
                   predefined, scale_args, stress_script, part_index,
                   category_pos, calls, input0, base_deck, scan_end, injections,
                   mesh_vars>>

\* the loop is over: return jobs
CreateJobsReturn ==
    /\ pc = "create_jobs" /\ exc = ""
    /\ i >= scale_args[1]
    /\ pc' = "done"
    /\ UNCHANGED <<exc, mesh_data, default_input, next_line, sets_to_inject,
                   current_part_index, bc_section_index, line_index,
                   predefined, scale_args, i, files, jobs, stress_script,
                   part_index, category_pos, calls, input0, base_deck,
                   scan_end, injections,
                   out, mesh_vars>>

(***************************************************************************)
(* define_stresses(mesh_data, stress_script)                               *)
(***************************************************************************)
\* a script execfile cannot run
BrokenScript == "broken"

\* a script execfile can run once: run again it raises
LoadsOnceScript == "loads_once"

\* execfile(stress_script, globals()) in function stage does not raise
\* (check_stress_script runs the script first)
Loads(script, stage) ==
    /\ script # BrokenScript
    /\ script = LoadsOnceScript => stage = "check_stress_script"

\* execfile(stress_script, globals()) succeeds
DefineLoadScript ==
    /\ pc = "define_stresses" /\ exc = ""
    /\ Loads(stress_script, "define_stresses")
    /\ pc' = "define_stresses_loop"
    /\ part_index' = 0
    /\ category_pos' = 0
    /\ UNCHANGED <<exc, mesh_data, default_input, next_line, sets_to_inject,
                   current_part_index, bc_section_index, line_index,
                   predefined, scale_args, i, files, jobs, stress_script,
                   calls, input0, base_deck, scan_end, injections,
                   out, mesh_vars>>

\* execfile raises: return None
DefineLoadFails ==
    /\ pc = "define_stresses" /\ exc = ""
    /\ ~Loads(stress_script, "define_stresses")
    /\ out' = Append(out, "---> Stress script threw an error")
    /\ pc' = "define_stresses_none"
    /\ UNCHANGED <<exc, mesh_data, default_input, next_line, sets_to_inject,
                   current_part_index, bc_section_index, line_index,
                   predefined, scale_args, i, files, jobs, stress_script,
                   part_index, category_pos, calls, input0, base_deck,
                   scan_end, injections, mesh_vars>>

DefineLooping ==
    /\ pc = "define_stresses_loop" /\ exc = ""
    /\ part_index < Len(mesh_data)

\* "if part_mesh_data is None: continue"
DefineSkipNone ==
    /\ DefineLooping
    /\ mesh_data[part_index + 1].none
    /\ part_index' = part_index + 1
    /\ UNCHANGED <<pc, exc, mesh_data, default_input, next_line,
                   sets_to_inject, current_part_index, bc_section_index,
                   line_index, predefined, scale_args, i, files, jobs,
                   stress_script, category_pos, calls, input0, base_deck,
                   scan_end, injections,
                   out, mesh_vars>>

\* one iteration of the loop over part_mesh_data.keys()
DefineCategoryStress ==
    /\ DefineLooping
    /\ ~mesh_data[part_index + 1].none
    /\ category_pos < Len(mesh_data[part_index + 1].korder)
    /\ LET rank == mesh_data[part_index + 1].korder[category_pos + 1]
           mesh_category == mesh_data[part_index + 1].cats[rank]
       IN  /\ calls' = Append(calls, [part |-> part_index, rank |-> rank,
                                      args |-> StressCallArgs(mesh_category)])
           /\ mesh_data' =
                [mesh_data EXCEPT ![part_index + 1].cats[rank].stress =
                    AssignedStress(stress_script, mesh_category)]
           /\ out' = IF StressCallRaises(stress_script, mesh_category)
                     THEN Append(out, "---> Stress script threw an error during calculation for element")
                     ELSE out
    /\ category_pos' = category_pos + 1
    /\ UNCHANGED <<pc, exc, default_input, next_line, sets_to_inject,
                   current_part_index, bc_section_index, line_index,
                   predefined, scale_args, i, files, jobs, stress_script,
                   part_index, input0, base_deck, scan_end, injections,
                   mesh_vars>>

\* the categories of the instance are done: next instance
DefineNextPart ==
    /\ DefineLooping
    /\ ~mesh_data[part_index + 1].none
    /\ category_pos >= Len(mesh_data[part_index + 1].korder)
    /\ part_index' = part_index + 1
    /\ category_pos' = 0
    /\ UNCHANGED <<pc, exc, mesh_data, default_input, next_line,
                   sets_to_inject, current_part_index, bc_section_index,
                   line_index, predefined, scale_args, i, files, jobs,
                   stress_script, calls, input0, base_deck, scan_end, injections,
                   out, mesh_vars>>

\* "return mesh_data"
DefineReturn ==
    /\ pc = "define_stresses_loop" /\ exc = ""
    /\ part_index >= Len(mesh_data)
    /\ pc' = "define_stresses_return"
    /\ UNCHANGED <<exc, mesh_data, default_input, next_line, sets_to_inject,
                   current_part_index, bc_section_index, line_index,
                   predefined, scale_args, i, files, jobs, stress_script,
                   part_index, category_pos, calls, input0, base_deck,
                   scan_end, injections,
                   out, mesh_vars>>

(***************************************************************************)
(* characterize_mesh(default_job, stress_script)                           *)
(***************************************************************************)
\* the stress script's get_category(part, x, y, z): not defined, defined
\* but not callable, a function of the point, a function of the part, and
\* a function that raises from the second element of an instance on
Classifiers == {"undefined", "not_callable", "by_parity", "by_part", "raises"}

get_category(kind, part, x, y, z) ==
    [raised |-> kind = "raises" /\ x >= 2,
     value  |-> IF kind = "by_part" THEN <<"K">> \o part
                                    ELSE <<"K", ToString(x % 2)>>]

\* lines 121-133: the script loads and defines a callable get_category
Categorizes(script, kind) ==
    /\ Loads(script, "characterize_mesh")
    /\ kind \in {"by_parity", "by_part", "raises"}

\* an instance of the assembly: its key, its part and its elements, whose
\* labels are 1..n
HostInstance(k, part, n) ==
    [key |-> InstanceName(k), part |-> part, n |-> n]

\* model.rootAssembly.allInstances
Assemblies ==
    UNION { { [k \in 1..m |-> HostInstance(k, f[k][1], f[k][2])] :
                f \in [1..m -> PartNames \X (0..MaxMeshElems)] } :
            m \in 1..MaxInst }

\* MeshElementData.get_label()
get_label(element_data) == element_data.label

\* MeshElementCategory(category, element_data): a category of one element
NewCategory(category, element_data) ==
    [id |-> category, part |-> element_data.part, inst |-> element_data.inst,
     elems |-> <<element_data>>, stress |-> <<>>]

\* MeshElementCategory.add_element(element_data)
add_element(mesh_category, element_data) ==
    [mesh_category EXCEPT !.elems = Append(@, element_data)]

\* an element whose key is taken already is not stored
StoreElementKeepsFirst(categories, category, element_data) ==
    IF \E j \in 1..Len(categories) : categories[j].id = category
    THEN categories
    ELSE Append(categories, NewCategory(category, element_data))

\* every element is stored under the key of the first category
StoreElementInFirst(categories, category, element_data) ==
    IF categories # <<>>
    THEN [categories EXCEPT ![1] = add_element(@, element_data)]
    ELSE Append(categories, NewCategory(category, element_data))

\* lines 193-196: the element joins the category of its key, or starts it
StoreElement(categories, category, element_data) ==
    IF \E j \in 1..Len(categories) : categories[j].id = category
    THEN LET j == CHOOSE j \in 1..Len(categories) :
                    categories[j].id = category
         IN  [categories EXCEPT ![j] = add_element(@, element_data)]
    ELSE Append(categories, NewCategory(category, element_data))

\* the key of an element when nothing categorizes: its label
DefaultCategory(element_data) == Str(get_label(element_data))

\* lines 119-147: the script is loaded, the instances are fetched and
\* mesh_data is allocated with one empty slot per instance
CharLoadScript ==
    /\ pc = "characterize_mesh" /\ exc = ""
    /\ categorize' = Categorizes(stress_script, host.get_category)
    /\ out' = out \o <<"> Characterizing mesh">>
                \o (IF Categorizes(stress_script, host.get_category)
                    THEN <<"-> Function \"get_category\" detected in stress script">>
                    ELSE <<>>)
    /\ \E a \in host.assemblies :
          /\ instances' = a
          /\ mesh_data' = [k \in 1..Len(a) |-> NoneSlot]
    /\ no_mesh' = TRUE
    /\ instance_index' = 0
    /\ element_index' = 0
    /\ part_mesh_data' = <<>>
    /\ pc' = "characterize_mesh_loop"
    /\ UNCHANGED <<exc, default_input, next_line, sets_to_inject,
                   current_part_index, bc_section_index, line_index,
                   predefined, scale_args, i, files, jobs, stress_script,
                   part_index, category_pos, calls, input0, base_deck,
                   scan_end, injections, host>>

CharLooping ==
    /\ pc = "characterize_mesh_loop" /\ exc = ""
    /\ instance_index < Len(instances)

\* the element the inner loop is at
CharElementData ==
    MeshElementData(instances[instance_index + 1].key,
                    instances[instance_index + 1].part, element_index + 1)

\* the call get_category(part_name, x, y, z) for that element
CharCategoryCall ==
    LET e == CharElementData
    IN  get_category(host.get_category, e.part, e.x, e.y, e.z)

\* one iteration of the loop over the elements: the element is stored
\* under the key get_category returns, or under its label
CharElement ==
    /\ CharLooping
    /\ element_index < instances[instance_index + 1].n
    /\ categorize => ~CharCategoryCall.raised
    /\ LET category == IF categorize THEN CharCategoryCall.value
                       ELSE DefaultCategory(CharElementData)
       IN  part_mesh_data' =
              StoreElement(part_mesh_data, category, CharElementData)
    /\ no_mesh' = FALSE
    /\ element_index' = element_index + 1
    /\ UNCHANGED <<pc, exc, mesh_data, default_input, next_line,
                   sets_to_inject, current_part_index, bc_section_index,
                   line_index, predefined, scale_args, i, files, jobs,
                   stress_script, part_index, category_pos, calls, input0,
                   base_deck, scan_end, injections, out, host, instances,
                   categorize, instance_index>>

\* what the handler's print can do: element is the host's element object,
\* which has the attribute label (line 165); element.get_label() raises
\* AttributeError unless the host object has such a method, and the
\* concatenation raises TypeError unless it returns a string
HandlerOutcomes == {"printed", "AttributeError", "TypeError"}

\* get_category raises: the handler prints and returns None, or raises
CharClassifierFails ==
    /\ CharLooping
    /\ element_index < instances[instance_index + 1].n
    /\ categorize /\ CharCategoryCall.raised
    /\ no_mesh' = FALSE
    /\ \E o \in HandlerOutcomes :
          IF o = "printed"
          THEN /\ out' = Append(out, "-> Function \"get_category\" failed for element, aborting")
               /\ pc' = "characterize_mesh_none"
               /\ exc' = exc
          ELSE /\ exc' = o
               /\ UNCHANGED <<pc, out>>
    /\ UNCHANGED <<mesh_data, default_input, next_line, sets_to_inject,
                   current_part_index, bc_section_index, line_index,
                   predefined, scale_args, i, files, jobs, stress_script,
                   part_index, category_pos, calls, input0, base_deck,
                   scan_end, injections, host, instances, categorize,
                   instance_index, element_index, part_mesh_data>>

\* the instance has elements: mesh_data[instance_index] = part_mesh_data
\* (a dict, whose keys() has an order of its own)
CharStoreCategories ==
    /\ CharLooping
    /\ instances[instance_index + 1].n > 0
    /\ element_index >= instances[instance_index + 1].n
    /\ \E o \in KeyOrders(Len(part_mesh_data)) :
          mesh_data' = [mesh_data EXCEPT ![instance_index + 1] =
                           [none |-> FALSE, cats |-> part_mesh_data,
                            korder |-> o]]
    /\ instance_index' = instance_index + 1
    /\ element_index' = 0
    /\ part_mesh_data' = <<>>
    /\ UNCHANGED <<pc, exc, default_input, next_line, sets_to_inject,
                   current_part_index, bc_section_index, line_index,
                   predefined, scale_args, i, files, jobs, stress_script,
                   part_index, category_pos, calls, input0, base_deck,
                   scan_end, injections, out, host, instances, categorize,
                   no_mesh>>

\* the instance has no element: mesh_data[instance_index] = None
CharStoreNone ==
    /\ CharLooping
    /\ instances[instance_index + 1].n <= 0
    /\ mesh_data' = [mesh_data EXCEPT ![instance_index + 1] = NoneSlot]
    /\ instance_index' = instance_index + 1
    /\ UNCHANGED <<pc, exc, default_input, next_line, sets_to_inject,
                   current_part_index, bc_section_index, line_index,
                   predefined, scale_args, i, files, jobs, stress_script,
                   part_index, category_pos, calls, input0, base_deck,
                   scan_end, injections, out, host, instances, categorize,
                   element_index, part_mesh_data, no_mesh>>

\* "if no_mesh: ... return None"
CharNoMesh ==
    /\ pc = "characterize_mesh_loop" /\ exc = ""
    /\ instance_index >= Len(instances)
    /\ no_mesh
    /\ out' = Append(out, "-> No mesh present, aborting")
    /\ pc' = "characterize_mesh_none"
    /\ UNCHANGED <<exc, mesh_data, default_input, next_line, sets_to_inject,
                   current_part_index, bc_section_index, line_index,
                   predefined, scale_args, i, files, jobs, stress_script,
                   part_index, category_pos, calls, input0, base_deck,
                   scan_end, injections, mesh_vars>>

\* "return mesh_data"
CharReturn ==
    /\ pc = "characterize_mesh_loop" /\ exc = ""
    /\ instance_index >= Len(instances)
    /\ ~no_mesh
    /\ pc' = "characterize_mesh_return"
    /\ UNCHANGED <<exc, mesh_data, default_input, next_line, sets_to_inject,
                   current_part_index, bc_section_index, line_index,
                   predefined, scale_args, i, files, jobs, stress_script,
                   part_index, category_pos, calls, input0, base_deck,
                   scan_end, injections, out, mesh_vars>>

(***************************************************************************)
(* run_checks(default_job, stress_scale_counts, stress_scale_min,          *)
(* stress_scale_max, stress_script)                                        *)
(***************************************************************************)
\* the first check is left out
ScaleChecksFailNoCountCheck(count, min, max) ==
    IF max < min
    THEN <<"-> Minimum stress scale should be smaller or equal to the maximum stress scale">>
    ELSE IF max > min /\ count = 1
    THEN <<"-> Unclear stress scale definition, only one count for different min and max">>
    ELSE IF max = min /\ count > 1
    THEN <<"-> Unclear stress scale definition, multiple counts for equal min and max">>
    ELSE <<>>

\* the checks of the number of stress scales and of the bounds: the
\* message of the first check that fails, or nothing
ScaleChecksFail(count, min, max) ==
    IF count < 1
    THEN <<"-> Number of stress scales should be larger than 0">>
    ELSE IF max < min
    THEN <<"-> Minimum stress scale should be smaller or equal to the maximum stress scale">>
    ELSE IF max > min /\ count = 1
    THEN <<"-> Unclear stress scale definition, only one count for different min and max">>
    ELSE IF max = min /\ count > 1
    THEN <<"-> Unclear stress scale definition, multiple counts for equal min and max">>
    ELSE <<>>

\* check_stress_script(stress_script): the messages and the value returned
check_stress_script(script) ==
    IF ~Loads(script, "check_stress_script")
    THEN [out |-> <<"-> Checking stress script",
                    "--> Stress script threw an error">>,
          result |-> FALSE]
    ELSE IF script = "undefined"
    THEN [out |-> <<"-> Checking stress script",
                    "--> Function \"calculate_stress\" not defined in stress script">>,
          result |-> FALSE]
    ELSE [out |-> <<"-> Checking stress script">>, result |-> TRUE]

\* the check of the model reports and lets the run go on
HostChecksModelIgnored(h, script) ==
    IF Cardinality(h.models) <= 0
    THEN [out |-> <<"-> No active model">>, result |-> "True"]
    ELSE [out |-> <<"-> No default job">>, result |-> "False"]

\* the checks of the host and of the script, after the scale checks
\* passed.  abaqus.mdb.jobs[default_job] is evaluated before default_job
\* is looked up in abaqus.mdb.jobs.keys(): for a name that is no key the
\* subscript raises KeyError
HostChecks(h, script) ==
    IF Cardinality(h.models) <= 0
    THEN [out |-> <<"-> No active model">>, result |-> "False"]
    ELSE IF h.default_job = ""
    THEN [out |-> <<"-> No default job">>, result |-> "False"]
    ELSE IF h.default_job \notin h.jobs
    THEN [out |-> <<>>, result |-> "KeyError"]
    ELSE IF h.default_job \notin h.with_model
    THEN [out |-> <<"-> Invalid job, job does not have an associated model">>,
          result |-> "False"]
    ELSE IF h.default_job \notin h.jobs
    THEN [out |-> <<"-> Invalid default job">>, result |-> "False"]
    ELSE LET c == check_stress_script(script)
         IN  IF ~c.result
             THEN [out |-> c.out \o <<"-> Stress script invalid">>,
                   result |-> "False"]
             ELSE [out |-> c.out \o <<"-> Checks passed">>,
                   result |-> "True"]

\* run_checks: the messages it prints and "True", "False" or the
\* exception it raises
run_checks(h, args, script) ==
    LET head == <<"> Performing checks", "-> Checking inputs and MDB">>
        f == ScaleChecksFail(args[1], args[2], args[3])
    IN  IF f # <<>>
        THEN [out |-> head \o f, result |-> "False"]
        ELSE LET c == HostChecks(h, script)
             IN  [out |-> head \o c.out, result |-> c.result]

(***************************************************************************)
(* run_plugin(default_job, stress_scale_counts, stress_scale_min,          *)
(* stress_scale_max, stress_script, error_script, run_jobs, iterate)       *)
(***************************************************************************)
StartMessage == "=== STRESS INPUT START ==="
ExitMessage == "=== STRESS INPUT FINISHED ==="

\* print('=== STRESS INPUT START ===') and the call of run_checks
RunStart ==
    /\ pc = "run_plugin" /\ exc = ""
    /\ out' = Append(out, StartMessage)
    /\ pc' = "run_checks"
    /\ UNCHANGED <<exc, mesh_data, default_input, next_line, sets_to_inject,
                   current_part_index, bc_section_index, line_index,
                   predefined, scale_args, i, files, jobs, stress_script,
                   part_index, category_pos, calls, input0, base_deck,
                   scan_end, injections, mesh_vars>>

\* run_checks returns True: characterize_mesh is called
RunChecksPass ==
    /\ pc = "run_checks" /\ exc = ""
    /\ LET r == run_checks(host, scale_args, stress_script)
       IN  /\ r.result = "True"
           /\ out' = out \o r.out
    /\ pc' = "characterize_mesh"
    /\ UNCHANGED <<exc, mesh_data, default_input, next_line, sets_to_inject,
                   current_part_index, bc_section_index, line_index,
                   predefined, scale_args, i, files, jobs, stress_script,
                   part_index, category_pos, calls, input0, base_deck,
                   scan_end, injections, mesh_vars>>

\* run_checks returns False: the body of the if is skipped
RunChecksFail ==
    /\ pc = "run_checks" /\ exc = ""
    /\ LET r == run_checks(host, scale_args, stress_script)
       IN  /\ r.result = "False"
           /\ out' = out \o r.out
    /\ pc' = "exit_message"
    /\ UNCHANGED <<exc, mesh_data, default_input, next_line, sets_to_inject,
                   current_part_index, bc_section_index, line_index,
                   predefined, scale_args, i, files, jobs, stress_script,
                   part_index, category_pos, calls, input0, base_deck,
                   scan_end, injections, mesh_vars>>

\* run_checks raises: nothing in run_plugin catches the exception
RunChecksRaise ==
    /\ pc = "run_checks" /\ exc = ""
    /\ LET r == run_checks(host, scale_args, stress_script)
       IN  /\ r.result \notin {"True", "False"}
           /\ out' = out \o r.out
           /\ exc' = r.result
    /\ UNCHANGED <<pc, mesh_data, default_input, next_line, sets_to_inject,
                   current_part_index, bc_section_index, line_index,
                   predefined, scale_args, i, files, jobs, stress_script,
                   part_index, category_pos, calls, input0, base_deck,
                   scan_end, injections, mesh_vars>>

\* lines 18-20: characterize_mesh returned None
RunNoMesh ==
    /\ pc = "characterize_mesh_none" /\ exc = ""
    /\ pc' = "exit_message"
    /\ UNCHANGED <<exc, mesh_data, default_input, next_line, sets_to_inject,
                   current_part_index, bc_section_index, line_index,
                   predefined, scale_args, i, files, jobs, stress_script,
                   part_index, category_pos, calls, input0, base_deck,
                   scan_end, injections, out, mesh_vars>>

\* line 22: characterize_mesh returned the mesh data, define_stresses is
\* called
RunDefineStresses ==
    /\ pc = "characterize_mesh_return" /\ exc = ""
    /\ pc' = "define_stresses"
    /\ UNCHANGED <<exc, mesh_data, default_input, next_line, sets_to_inject,
                   current_part_index, bc_section_index, line_index,
                   predefined, scale_args, i, files, jobs, stress_script,
                   part_index, category_pos, calls, input0, base_deck,
                   scan_end, injections, out, mesh_vars>>

\* lines 23-25: define_stresses returned None
RunNoStresses ==
    /\ pc = "define_stresses_none" /\ exc = ""
    /\ pc' = "exit_message"
    /\ UNCHANGED <<exc, mesh_data, default_input, next_line, sets_to_inject,
                   current_part_index, bc_section_index, line_index,
                   predefined, scale_args, i, files, jobs, stress_script,
                   part_index, category_pos, calls, input0, base_deck,
                   scan_end, injections, out, mesh_vars>>

\* what job.writeInput() may have written for the run's model
RunDecks ==
    { <<HeadingLine>> \o PartBlock(<<"A">>) \o PartBlock(<<"B">>)
        \o <<BoundaryConditionsLine, BlankCommentLine, TerminatorLine>>,
      <<HeadingLine>> \o PartBlock(<<"A">>) \o PartBlock(<<"B">>)
        \o <<BoundaryConditionsLine, PredefinedFieldsLine, BlankCommentLine,
             TerminatorLine>>,
      <<HeadingLine>> \o PartBlock(<<"A">>) \o <<BlankCommentLine>> }

\* line 27 and lines 245-251: define_stresses returned the mesh data,
\* create_jobs writes and reads the default input and calls
\* inject_element_sets
RunCreateJobs ==
    /\ pc = "define_stresses_return" /\ exc = ""
    /\ out' = Append(out, "> Generating input files")
    /\ \E deck \in RunDecks :
          /\ default_input' = deck
          /\ input0' = deck
    /\ sets_to_inject' = [k \in 1..Len(mesh_data) |-> k - 1]
    /\ next_line' = 0
    /\ current_part_index' = -1
    /\ pc' = "inject_element_sets"
    /\ UNCHANGED <<exc, mesh_data, bc_section_index, line_index, predefined,
                   scale_args, i, files, jobs, stress_script, part_index,
                   category_pos, calls, base_deck, scan_end, injections,
                   mesh_vars>>

\* lines 29-31: create_jobs returned and run_jobs is set
RunExecuteJobs ==
    /\ pc = "done" /\ exc = ""
    /\ host.run_jobs
    /\ out' = Append(out, "> Running jobs")
    /\ pc' = "exit_message"
    /\ UNCHANGED <<exc, mesh_data, default_input, next_line, sets_to_inject,
                   current_part_index, bc_section_index, line_index,
                   predefined, scale_args, i, files, jobs, stress_script,
                   part_index, category_pos, calls, input0, base_deck,
                   scan_end, injections, mesh_vars>>

\* lines 29-33: create_jobs returned and run_jobs is not set
RunSkipJobs ==
    /\ pc = "done" /\ exc = ""
    /\ ~host.run_jobs
    /\ pc' = "exit_message"
    /\ UNCHANGED <<exc, mesh_data, default_input, next_line, sets_to_inject,
                   current_part_index, bc_section_index, line_index,
                   predefined, scale_args, i, files, jobs, stress_script,
                   part_index, category_pos, calls, input0, base_deck,
                   scan_end, injections, out, mesh_vars>>

\* print_exit_message(), and run_plugin returns
RunExit ==
    /\ pc = "exit_message" /\ exc = ""
    /\ out' = Append(out, ExitMessage)
    /\ pc' = "returned"
    /\ UNCHANGED <<exc, mesh_data, default_input, next_line, sets_to_inject,
                   current_part_index, bc_section_index, line_index,
                   predefined, scale_args, i, files, jobs, stress_script,
                   part_index, category_pos, calls, input0, base_deck,
                   scan_end, injections, mesh_vars>>

(***************************************************************************)
(* The specifications.                                                     *)
(***************************************************************************)
\* no host is consulted
NoHost ==
    [default_job |-> "", run_jobs |-> FALSE, models |-> {}, jobs |-> {},
     with_model |-> {}, get_category |-> "undefined", assemblies |-> {}]

\* the locals of the functions before they run
FunctionLocals ==
    /\ exc = ""
    /\ next_line = 0
    /\ current_part_index = -1
    /\ bc_section_index = -1
    /\ line_index = -1
    /\ predefined = FALSE
    /\ i = 0
    /\ files = <<>>
    /\ jobs = <<>>
    /\ part_index = 0
    /\ category_pos = 0
    /\ calls = <<>>
    /\ base_deck = <<>>
    /\ scan_end = -1
    /\ injections = <<>>
    /\ out = <<>>
    /\ instances = <<>>
    /\ categorize = FALSE
    /\ instance_index = 0
    /\ element_index = 0
    /\ part_mesh_data = <<>>
    /\ no_mesh = TRUE

\* a function of the kernel is run on its own
Locals ==
    /\ FunctionLocals
    /\ scale_args = <<>>
    /\ host = NoHost

\* create_jobs has written and read the default input and calls
\* inject_element_sets: sets_to_inject = np.arange(0, len(mesh_data))
StartOfCreateJobs(mesh, deck) ==
    /\ pc = "inject_element_sets"
    /\ mesh_data = mesh
    /\ default_input = deck
    /\ input0 = deck
    /\ sets_to_inject = [k \in 1..Len(mesh) |-> k - 1]
    /\ stress_script = "good"
    /\ Locals

\* create_jobs, from the deck as read to the jobs returned
Init ==
    \E mesh \in Meshes, deck \in Decks :
        StartOfCreateJobs(WithStresses(mesh, "good"), deck)

Next ==
    \/ ScanIndexError
    \/ ScanSkipLine
    \/ ScanPartHeader
    \/ InjectSkipLine
    \/ InjectSets
    \/ FindIndexError
    \/ FindSkipBeforeBC
    \/ FindBoundaryConditions
    \/ FindPredefinedFields
    \/ FindSkipInSection
    \/ FindTerminator
    \/ InjectStressField
    \/ CreateJobsReturn

Spec == Init /\ [][Next]_vars

\* define_stresses, on the mesh data characterize_mesh returned
InitStress ==
    /\ pc = "define_stresses"
    /\ mesh_data \in Meshes
    /\ stress_script \in StressScripts \cup {BrokenScript}
    /\ default_input = <<>>
    /\ input0 = <<>>
    /\ sets_to_inject = <<>>
    /\ Locals

NextStress ==
    \/ DefineLoadScript
    \/ DefineLoadFails
    \/ DefineSkipNone
    \/ DefineCategoryStress
    \/ DefineNextPart
    \/ DefineReturn

SpecStress == InitStress /\ [][NextStress]_vars

\* inject_element_sets on one instance whose first category holds n
\* elements, in rising or falling label order, and whose second holds 2
WrapMeshes ==
    { << [none |-> FALSE,
          cats |-> << MeshElementCategory(InstanceName(1), <<"A">>, 1, n, desc),
                      MeshElementCategory(InstanceName(1), <<"A">>, 2, 2, desc) >>,
          korder |-> o] >> :
        n \in 1..MaxElems, desc \in BOOLEAN, o \in KeyOrders(2) }

InitWrap ==
    \E mesh \in WrapMeshes :
        StartOfCreateJobs(WithStresses(mesh, "good"),
            <<HeadingLine>> \o PartBlock(<<"A">>)
                \o <<BoundaryConditionsLine, TerminatorLine>>)

NextWrap ==
    \/ ScanSkipLine
    \/ ScanPartHeader
    \/ InjectSkipLine
    \/ InjectSets

SpecWrap == InitWrap /\ [][NextWrap]_vars

\* characterize_mesh on its own, for every script and every assembly
MeshHosts ==
    { [default_job |-> "Job-1", run_jobs |-> FALSE, models |-> {"Model-1"},
       jobs |-> {"Job-1"}, with_model |-> {"Job-1"}, get_category |-> c,
       assemblies |-> Assemblies] : c \in Classifiers }

InitMesh ==
    /\ pc = "characterize_mesh"
    /\ mesh_data = <<>>
    /\ stress_script \in {"good", BrokenScript}
    /\ default_input = <<>>
    /\ input0 = <<>>
    /\ sets_to_inject = <<>>
    /\ scale_args = <<>>
    /\ host \in MeshHosts
    /\ FunctionLocals

NextMesh ==
    \/ CharLoadScript
    \/ CharElement
    \/ CharClassifierFails
    \/ CharStoreCategories
    \/ CharStoreNone
    \/ CharNoMesh
    \/ CharReturn

SpecMesh == InitMesh /\ [][NextMesh]_vars

\* the arguments of run_plugin: counts from 0 on, bounds in either order
RunScaleArgs == (0..MaxScales) \X {1, 2} \X {1, 2}

RunScripts == {"good", "undefined", BrokenScript, LoadsOnceScript}

\* the assemblies of the runs: one or two instances, with and without
\* elements
RunAssemblies ==
    { <<HostInstance(1, <<"A">>, 2)>>,
      <<HostInstance(1, <<"A">>, 0)>>,
      <<HostInstance(1, <<"A">>, 0), HostInstance(2, <<"B">>, 1)>>,
      <<HostInstance(1, <<"A">>, 1), HostInstance(2, <<"B">>, 2)>> }

\* the host: the job registry holds a job of a model and a job made from
\* an input file, which has no model
RunHosts ==
    { [default_job |-> j, run_jobs |-> r, models |-> m,
       jobs |-> {"Job-1", "Job-inp"}, with_model |-> {"Job-1"},
       get_category |-> c, assemblies |-> RunAssemblies] :
        j \in {"", "Job-1", "Job-inp", "Job-x"}, r \in BOOLEAN,
        m \in {{}, {"Model-1"}}, c \in Classifiers }

InitRun ==
    /\ pc = "run_plugin"
    /\ mesh_data = <<>>
    /\ stress_script \in RunScripts
    /\ default_input = <<>>
    /\ input0 = <<>>
    /\ sets_to_inject = <<>>
    /\ scale_args \in RunScaleArgs
    /\ host \in RunHosts
    /\ FunctionLocals

NextRun ==
    \/ RunStart
    \/ RunChecksPass
    \/ RunChecksFail
    \/ RunChecksRaise
    \/ CharLoadScript
    \/ CharElement
    \/ CharClassifierFails
    \/ CharStoreCategories
    \/ CharStoreNone
    \/ CharNoMesh
    \/ CharReturn
    \/ RunNoMesh
    \/ RunDefineStresses
    \/ DefineLoadScript
    \/ DefineLoadFails
    \/ DefineSkipNone
    \/ DefineCategoryStress
    \/ DefineNextPart
    \/ DefineReturn
    \/ RunNoStresses
    \/ RunCreateJobs
    \/ ScanIndexError
    \/ ScanSkipLine
    \/ ScanPartHeader
    \/ InjectSkipLine
    \/ InjectSets
    \/ FindIndexError
    \/ FindSkipBeforeBC
    \/ FindBoundaryConditions
    \/ FindPredefinedFields
    \/ FindSkipInSection
    \/ FindTerminator
    \/ InjectStressField
    \/ CreateJobsReturn
    \/ RunExecuteJobs
    \/ RunSkipJobs
    \/ RunExit

SpecRun == InitRun /\ [][NextRun]_vars

\* create_jobs for every count and all bounds run_checks accepts, on the
\* mesh of one instance and its deck
ScaleRunArgs ==
    { a \in (1..(MaxScales + 2)) \X Floats \X Floats :
        ScaleChecksFail(a[1], a[2], a[3]) = <<>> }

InitScale ==
    /\ pc = "inject_element_sets"
    /\ mesh_data = WithStresses(
          << [none |-> FALSE,
              cats |-> <<MeshElementCategory(InstanceName(1), <<"A">>, 1, 1,
                                             FALSE)>>,
              korder |-> <<1>>] >>, "good")
    /\ default_input = <<PartLine(<<"A">>), NodeLine, EndPartLine,
                         BlankCommentLine, BoundaryConditionsLine,
                         PredefinedFieldsLine, TerminatorLine>>
    /\ input0 = default_input
    /\ sets_to_inject = <<0>>
    /\ stress_script = "good"
    /\ scale_args \in ScaleRunArgs
    /\ host = NoHost
    /\ FunctionLocals

NextScale ==
    \/ ScanPartHeader
    \/ InjectSets
    \/ FindSkipBeforeBC
    \/ FindBoundaryConditions
    \/ FindPredefinedFields
    \/ FindTerminator
    \/ InjectStressField
    \/ CreateJobsReturn

SpecScale == InitScale /\ [][NextScale]_vars

(***************************************************************************)
(* Notions the properties share.                                           *)
(***************************************************************************)
\* how many lines of buf satisfy Test
CountLines(buf, Test(_)) == Cardinality({k \in 1..Len(buf) : Test(buf[k])})

\* the 0-based indices of the instances that have categories
NonEmptyParts == {p \in 0..(Len(mesh_data) - 1) : ~IsEmptySlot(mesh_data[p + 1])}

\* <<part index, insertion rank>> of every category of the mesh data
AllCategories ==
    {<<p, j>> \in (0..(Len(mesh_data) - 1)) \X (1..MaxCats + 1) :
        j <= Len(mesh_data[p + 1].cats)}

CategoryAt(pj) == mesh_data[pj[1] + 1].cats[pj[2]]

\* the text every stress data line of a category starts with
StressLinePrefix(category) ==
    category.inst \o <<".">> \o get_set_name(category) \o <<",">>

ElsetLine(category) == ElsetPrefix \o get_set_name(category)

\* inject_element_sets has returned
ScannerReturned ==
    pc \in {"find_stress_injection_line", "create_jobs", "done"}

\* find_stress_injection_line has returned
LocatorReturned == pc \in {"create_jobs", "done"}

(***************************************************************************)
(* C1: every call of inject_stress_field works on a copy of the base deck: *)
(* the base deck buffer is unchanged after each call, and the file written *)
(* for each scale factor holds exactly one '*Initial Conditions,           *)
(* type=STRESS' line and exactly one stress data line per category,        *)
(* however many scale factors were processed before it.                    *)
(***************************************************************************)
\* C1: the buffer is the base deck after every call, and every file holds
\* one marker line and one stress data line per category
C1_PerScaleIndependence ==
    LocatorReturned =>
        /\ default_input = base_deck
        /\ \A k \in 1..Len(files) :
              /\ CountLines(files[k].lines,
                            LAMBDA l : l = InitialConditionsLine) = 1
              /\ \A pj \in AllCategories :
                    CountLines(files[k].lines,
                        LAMBDA l : StartsWith(l,
                                      StressLinePrefix(CategoryAt(pj)))) = 1

(***************************************************************************)
(* C2: inject_element_sets returns only when the pending list is empty and *)
(* the scanner is not injecting: every matched part header has had its     *)
(* block inserted, and every instance with categories has had its block    *)
(* inserted exactly once, with one '*Elset' header per category.           *)
(***************************************************************************)
\* C2: on return nothing is pending, no matched header waits for its
\* block, and every instance with categories was injected exactly once
C2_ReturnsOnlyWhenComplete ==
    ScannerReturned =>
        /\ sets_to_inject = <<>>
        /\ current_part_index < 0
        /\ \A k \in 1..Len(injections) : injections[k].at >= 0
        /\ \A p \in NonEmptyParts :
              Cardinality({k \in 1..Len(injections) :
                              injections[k].part = p}) = 1
        /\ \A pj \in AllCategories :
              CountLines(base_deck, LAMBDA l : l = ElsetLine(CategoryAt(pj)))
                = Cardinality({p \in NonEmptyParts :
                     \E j \in 1..Len(mesh_data[p + 1].cats) :
                        get_set_name(mesh_data[p + 1].cats[j])
                          = get_set_name(CategoryAt(pj))})
        /\ CountLines(base_deck, LAMBDA l : StartsWith(l, ElsetPrefix))
             = Cardinality(AllCategories)

\* the scanner has returned after injecting the blocks of two instances
C2_Witness ==
    /\ pc = "find_stress_injection_line"
    /\ Len(injections) = 2
    /\ injections[2].at >= 0

(***************************************************************************)
(* C3: when the mesh data has an instance with categories and every part   *)
(* of such an instance has a '*Part, name=' header in the deck that is     *)
(* followed, after its node and element lines, by another marker line,     *)
(* inject_element_sets terminates without reading past the end of the      *)
(* buffer, whatever slots are empty and also when instances share a part.  *)
(***************************************************************************)
\* deck line h (1-based) is the header of part and its section ends in a
\* marker line
HeaderWithMarker(deck, h, part) ==
    /\ deck[h] = PartLine(part)
    /\ \E m \in (h + 2)..Len(deck) :
          /\ deck[m][1] = "*"
          /\ ~StartsWith(deck[m], ElementPrefix)
          /\ \A j \in (h + 2)..(m - 1) :
                \/ deck[j][1] # "*"
                \/ StartsWith(deck[j], ElementPrefix)

PartsOfMeshInDeck ==
    /\ NonEmptyParts # {}
    /\ \A p \in NonEmptyParts :
          \E h \in 1..Len(input0) :
              HeaderWithMarker(input0, h, mesh_data[p + 1].cats[1].part)

\* C3: with every part of the mesh in the deck, the scanner never reads
\* past the end of the buffer
C3_ScannerTerminates ==
    PartsOfMeshInDeck =>
        ~(pc = "inject_element_sets" /\ exc = "IndexError")

(***************************************************************************)
(* C4: after a part header is matched and the line after it skipped, lines *)
(* that start with a space, with '*Element, type=' or with no '*' are      *)
(* skipped; the blocks of the matched part are inserted contiguously,      *)
(* immediately before the first other line that starts with '*', one block *)
(* per category, each the line '*Elset, elset=<set name>' followed by the  *)
(* category's label lines; the scanner then scans for a part again.        *)
(* As claimed the blocks come in the order the categories were inserted;   *)
(* as amended they come in the order keys() lists the categories.          *)
(***************************************************************************)
\* the m-th label line of a category: labels 8(m-1)+1 .. min(8m, n), each
\* followed by a comma, a space between two labels
LabelLine(elements, m) ==
    LET lo == element_limit * (m - 1) + 1
        hi == IF element_limit * m < Len(elements)
              THEN element_limit * m ELSE Len(elements)
    IN  Flatten([q \in 1..(hi - lo + 1) |->
                    <<ToString(elements[lo + q - 1].label), ",">>
                      \o (IF lo + q - 1 < hi THEN <<" ">> ELSE <<>>)])

LabelLineCount(n) == (n + element_limit - 1) \div element_limit

\* the block of one category, and the blocks of a sequence of categories
CategoryBlock(category) ==
    <<ElsetLine(category)>>
      \o [m \in 1..LabelLineCount(Len(category.elems)) |->
            LabelLine(category.elems, m)]

BlocksOf(categories) ==
    Flatten([k \in 1..Len(categories) |-> CategoryBlock(categories[k])])

\* injection record r put the blocks of categories at the injection point
InjectedAtMarker(r, categories) ==
    LET block == BlocksOf(categories)
        after == r.at + Len(block) + 1
    IN  /\ default_input[r.header + 1]
             = PartLine(mesh_data[r.part + 1].cats[1].part)
        /\ r.at >= r.header + 2
        /\ \A j \in (r.header + 3)..r.at :
              \/ default_input[j][1] = " "
              \/ StartsWith(default_input[j], ElementPrefix)
              \/ default_input[j][1] # "*"
        /\ SubSeq(default_input, r.at + 1, r.at + Len(block)) = block
        /\ after <= Len(default_input)
        /\ default_input[after][1] = "*"
        /\ ~StartsWith(default_input[after], ElementPrefix)
        /\ ~StartsWith(default_input[after], ElsetPrefix)

\* the scanner is injecting exactly between a match and its injection
ScansForPartAfterInjection ==
    current_part_index >= 0
      <=> (injections # <<>> /\ injections[Len(injections)].at < 0)

\* C4 as claimed: the blocks lie at the injection point in the order the
\* categories were inserted
C4_BlocksInInsertionOrder ==
    /\ ScansForPartAfterInjection
    /\ \A k \in 1..Len(injections) :
          injections[k].at >= 0 =>
              InjectedAtMarker(injections[k],
                               mesh_data[injections[k].part + 1].cats)

\* C4 as amended: the blocks lie at the injection point in the order
\* keys() lists the categories
C4_BlocksInKeysOrder ==
    /\ ScansForPartAfterInjection
    /\ \A k \in 1..Len(injections) :
          injections[k].at >= 0 =>
              InjectedAtMarker(injections[k],
                               Keys(mesh_data[injections[k].part + 1]))

\* the blocks of an instance with two categories are in the buffer, and
\* keys() lists the categories in another order than they were inserted
C4_Witness ==
    \E k \in 1..Len(injections) :
        /\ injections[k].at >= 0
        /\ Len(mesh_data[injections[k].part + 1].cats) = 2
        /\ mesh_data[injections[k].part + 1].korder = <<2, 1>>
        /\ current_part_index < 0

(***************************************************************************)
(* C5: for a category of n >= 1 elements the block has ceil(n/8) label     *)
(* lines; every label line but the last holds 8 labels and the last holds  *)
(* n - 8*(ceil(n/8) - 1); every line ends with a comma; the labels read    *)
(* line by line are the elements in discovery order, none lost or          *)
(* repeated.                                                               *)
(***************************************************************************)
\* the labels of a label line
LabelsOf(line) == SelectSeq(line, LAMBDA t : t \notin {",", " "})

\* the 1-based index of the '*Elset' header of a category in the buffer
ElsetHeaderIndex(category) ==
    CHOOSE h \in 1..Len(default_input) :
        default_input[h] = ElsetLine(category)

\* how many lines after line h start with no '*'
LabelRun(h) ==
    CHOOSE c \in 0..(Len(default_input) - h) :
        /\ \A j \in 1..c : default_input[h + j][1] # "*"
        /\ h + c + 1 <= Len(default_input) => default_input[h + c + 1][1] = "*"

WrappedAtEight(category) ==
    LET n == Len(category.elems)
        h == ElsetHeaderIndex(category)
        c == LabelRun(h)
        full == (n + 7) \div 8
    IN  /\ c = full
        /\ \A m \in 1..(c - 1) : Len(LabelsOf(default_input[h + m])) = 8
        /\ Len(LabelsOf(default_input[h + c])) = n - 8 * (full - 1)
        /\ \A m \in 1..c :
              default_input[h + m][Len(default_input[h + m])] = ","
        /\ Flatten([m \in 1..c |-> LabelsOf(default_input[h + m])])
             = [k \in 1..n |-> ToString(category.elems[k].label)]

\* C5: every injected category is wrapped at 8 labels a line, in
\* discovery order
C5_SetLineWrap ==
    \A k \in 1..Len(injections) :
        injections[k].at >= 0 =>
            \A j \in 1..Len(mesh_data[injections[k].part + 1].cats) :
                WrappedAtEight(mesh_data[injections[k].part + 1].cats[j])

\* a category of 17 elements has been injected
C5_Witness ==
    \E k \in 1..Len(injections) :
        /\ injections[k].at >= 0
        /\ Len(mesh_data[injections[k].part + 1].cats[1].elems) = 17
        /\ LabelRun(ElsetHeaderIndex(
               mesh_data[injections[k].part + 1].cats[1])) = 3

(***************************************************************************)
(* C6: one call of inject_stress_field inserts, contiguously at the         *)
(* injection point, the 3 header lines (unless a predefined-fields header  *)
(* was found), the '*Initial Conditions, type=STRESS' line and one data    *)
(* line per category; deleting the inserted lines gives the deck the call  *)
(* was given; the call on the deck the locator scanned inserts them        *)
(* immediately before the section terminator.                              *)
(***************************************************************************)
\* the k-th call turned pre into post
InsertsOneStressBlock(k, pre, post) ==
    LET n == Len(post) - Len(pre)
        header == IF predefined THEN 0 ELSE 3
        data == SubSeq(post, line_index + header + 2, line_index + n)
    IN  /\ n = header + 1 + Cardinality(AllCategories)
        /\ SubSeq(post, 1, line_index) = SubSeq(pre, 1, line_index)
        /\ SubSeq(post, line_index + n + 1, Len(post))
             = SubSeq(pre, line_index + 1, Len(pre))
        /\ ~predefined =>
              SubSeq(post, line_index + 1, line_index + 3)
                = <<BlankCommentLine, PredefinedFieldsLine, BlankCommentLine>>
        /\ post[line_index + header + 1] = InitialConditionsLine
        /\ \A pj \in AllCategories :
              CountLines(data,
                  LAMBDA l : StartsWith(l, StressLinePrefix(CategoryAt(pj))))
                = 1
        /\ k = 1 => StartsWith(post[line_index + n + 1], TerminatorPrefix)

\* C6: every call inserts one stress block and nothing else; the first
\* inserts it immediately before the terminator
C6_StressInjectorRoundTrip ==
    \A k \in 1..Len(files) :
        InsertsOneStressBlock(k,
            IF k = 1 THEN base_deck ELSE files[k - 1].lines, files[k].lines)

\* the first call has run on a deck without predefined-fields header, for a
\* mesh of two categories
C6_Witness ==
    /\ Len(files) = 1
    /\ ~predefined
    /\ Cardinality(AllCategories) = 2

(***************************************************************************)
(* C7: started at index s, find_stress_injection_line returns the index of *)
(* the first line with prefix '** -' after the first line at or after s    *)
(* that equals '** BOUNDARY CONDITIONS', and the flag is true exactly when *)
(* a line equal to '** PREDEFINED FIELDS' lies strictly between the two.   *)
(***************************************************************************)
Least(S) == CHOOSE x \in S : \A y \in S : x <= y

\* C7: the index and the flag the locator returned
C7_LocatorResult ==
    LocatorReturned =>
        LET marks == {b \in scan_end..(Len(base_deck) - 1) :
                         base_deck[b + 1] = BoundaryConditionsLine}
            ends == {t \in 0..(Len(base_deck) - 1) :
                        /\ marks # {}
                        /\ t > Least(marks)
                        /\ StartsWith(base_deck[t + 1], TerminatorPrefix)}
        IN  /\ marks # {}
            /\ ends # {}
            /\ line_index = Least(ends)
            /\ predefined <=>
                  \E j \in (Least(marks) + 1)..(Least(ends) - 1) :
                      base_deck[j + 1] = PredefinedFieldsLine

\* the locator has returned with the flag set, from a deck with a
\* terminator between its start index and the boundary-conditions marker
C7_Witness ==
    /\ LocatorReturned
    /\ predefined
    /\ \E t \in scan_end..bc_section_index :
          StartsWith(base_deck[t + 1], TerminatorPrefix)

(***************************************************************************)
(* C8: on a deck that lacks an expected marker the scan ends in a reported *)
(* failure; no scan step indexes the line buffer at or beyond its length.  *)
(***************************************************************************)
\* C8: no scan of a deck ends in an IndexError
C8_NoReadPastTheEnd == exc # "IndexError"

(***************************************************************************)
(* C9: an instance without elements (an absent slot or an empty category   *)
(* map) is never selected as the current part, consumes no deck line and   *)
(* contributes no '*Elset' line and no stress data line to any output      *)
(* deck; the injected lines are those of the instances with categories.    *)
(***************************************************************************)
\* the lines of all element-set blocks of the instances with categories
AllBlockLines ==
    Flatten([k \in 1..Len(mesh_data) |->
                IF IsEmptySlot(mesh_data[k])
                THEN <<>>
                ELSE BlocksOf(Keys(mesh_data[k]))])

EmptyNeverSelected ==
    /\ current_part_index >= 0 => current_part_index \in NonEmptyParts
    /\ \A k \in 1..Len(injections) : injections[k].part \in NonEmptyParts
    /\ ScannerReturned =>
          /\ Len(base_deck) = Len(input0) + Len(AllBlockLines)
          /\ \A k \in 1..Len(base_deck) :
                StartsWith(base_deck[k], ElsetPrefix) =>
                    \E pj \in AllCategories :
                        /\ pj[1] \in NonEmptyParts
                        /\ base_deck[k] = ElsetLine(CategoryAt(pj))
    /\ \A f \in 1..Len(files) :
          /\ \A p \in (0..(Len(mesh_data) - 1)) \ NonEmptyParts :
                CountLines(files[f].lines,
                    LAMBDA l : StartsWith(l, InstanceName(p + 1))) = 0
          /\ \A k \in 1..Len(files[f].lines) :
                StartsWith(files[f].lines[k], <<"Inst-">>) =>
                    \E pj \in AllCategories :
                        /\ pj[1] \in NonEmptyParts
                        /\ StartsWith(files[f].lines[k],
                                      StressLinePrefix(CategoryAt(pj)))
    /\ Len(files) >= 1 =>
          CountLines(files[1].lines, LAMBDA l : StartsWith(l, <<"Inst-">>))
            = Cardinality({pj \in AllCategories : pj[1] \in NonEmptyParts})

\* a step that selects no part reads one line, and the entries a step takes
\* off the pending list are empty ones or the part it selects
DropsConsumeNoLine ==
    (pc = "inject_element_sets" /\ current_part_index < 0) =>
        /\ current_part_index' < 0 =>
              next_line' = next_line \/ next_line' = next_line + 1
        /\ \A k \in 1..Len(sets_to_inject) :
              (\A q \in 1..Len(sets_to_inject') :
                   sets_to_inject'[q] # sets_to_inject[k])
                => \/ sets_to_inject[k] = current_part_index'
                   \/ sets_to_inject[k] \notin NonEmptyParts

\* C9: empty instances are never selected, consume no line and
\* contribute no line
C9_EmptyInstances == []EmptyNeverSelected /\ [][DropsConsumeNoLine]_vars

\* a deck file has been written for a mesh whose first slot is absent; the
\* scanner dropped its entry and injected the sets of the second instance
C9_Witness ==
    /\ Len(files) >= 1
    /\ Len(mesh_data) = 2
    /\ mesh_data[1].none
    /\ sets_to_inject = <<>>
    /\ Len(injections) = 1
    /\ injections[1].part = 1

(***************************************************************************)
(* C10: define_stresses calls the stress function once per category, with  *)
(* the part name and centroid of the category's first-discovered element;  *)
(* a category whose call fails gets the zero vector and the others keep    *)
(* what their own calls returned, so after the stage every category has a  *)
(* stress vector.                                                          *)
(***************************************************************************)
\* C10: one call per category on its first element, zeros where the call
\* raised, the returned value elsewhere
C10_StressAssignment ==
    pc = "define_stresses_return" =>
        /\ Len(calls) = Cardinality(AllCategories)
        /\ \A pj \in AllCategories :
              LET category == CategoryAt(pj)
                  first == category.elems[1]
                  r == calculate_stress(stress_script, first.part, first.x,
                                        first.y, first.z)
                  mine == {k \in 1..Len(calls) :
                              calls[k].part = pj[1] /\ calls[k].rank = pj[2]}
              IN  /\ Cardinality(mine) = 1
                  /\ \A k \in mine :
                        calls[k].args
                          = <<first.part, first.x, first.y, first.z>>
                  /\ Len(category.stress) = 6
                  /\ r.raised => category.stress = <<0, 0, 0, 0, 0, 0>>
                  /\ ~r.raised => category.stress = r.value

\* the stage has returned and, in one instance, a category whose call
\* raised holds zeros beside a category that holds what its call returned
C10_Witness ==
    /\ pc = "define_stresses_return"
    /\ \E p \in 1..Len(mesh_data) :
          /\ Len(mesh_data[p].cats) = 2
          /\ mesh_data[p].cats[2].stress = <<0, 0, 0, 0, 0, 0>>
          /\ mesh_data[p].cats[1].stress # <<0, 0, 0, 0, 0, 0>>
          /\ Len(mesh_data[p].cats[2].elems) >= 2

(***************************************************************************)
(* Notions the properties of a run share.                                  *)
(***************************************************************************)
\* message m was printed
Printed(m) == \E k \in 1..Len(out) : out[k] = m

\* how often message m was printed
TimesPrinted(m) == Cardinality({k \in 1..Len(out) : out[k] = m})

\* run_checks has returned or raised
ChecksOver == pc \notin {"run_plugin", "run_checks"} \/ exc # ""

\* nothing of the mesh was looked at, no deck was read or written and no
\* job was created
NoMeshOrDeckWork ==
    /\ ~Printed("> Characterizing mesh")
    /\ instances = <<>> /\ mesh_data = <<>> /\ part_mesh_data = <<>>
    /\ calls = <<>>
    /\ ~Printed("> Generating input files")
    /\ default_input = <<>> /\ input0 = <<>>
    /\ files = <<>>
    /\ jobs = <<>>

(***************************************************************************)
(* C11: for all inputs with count < 1, or max < min, or max > min and      *)
(* count = 1, or max = min and count > 1, run_checks returns False and     *)
(* run_plugin characterizes no mesh, writes no deck file and creates no    *)
(* job.                                                                    *)
(***************************************************************************)
ScaleInputsInvalid ==
    LET count == scale_args[1]
        min == scale_args[2]
        max == scale_args[3]
    IN  \/ count < 1
        \/ max < min
        \/ max > min /\ count = 1
        \/ max = min /\ count > 1

\* C11: with invalid scale inputs run_checks returns False (it neither
\* passes nor raises) and the run does no mesh or deck work
C11_ValidationRejects ==
    ScaleInputsInvalid =>
        /\ pc \in {"run_plugin", "run_checks", "exit_message", "returned"}
        /\ exc = ""
        /\ ~Printed("-> Checks passed")
        /\ NoMeshOrDeckWork

\* a run with several counts for equal bounds has returned after run_checks
\* rejected it
C11_Witness ==
    /\ scale_args[1] > 1
    /\ scale_args[2] = scale_args[3]
    /\ pc = "returned"
    /\ Printed("-> Unclear stress scale definition, multiple counts for equal min and max")

(***************************************************************************)
(* C12: create_jobs produces exactly count scale factors; for count = 1    *)
(* the sequence is [min]; for count > 1 the i-th value (i in 0..count-1)   *)
(* is min + i*(max-min)/(count-1), so the first value is min and the       *)
(* sequence is non-decreasing.  As claimed the last value is max; as       *)
(* amended it is max when no operation of its evaluation rounds.           *)
(***************************************************************************)
\* the scale factors of the files written so far
ScaleFactors == [k \in 1..Len(files) |-> files[k].scale]

\* create_jobs has returned
CreateJobsReturned == pc \in {"done", "exit_message", "returned"}

\* count values, [min] for one count, the i-th the value of the formula,
\* the first min, no value below the one before it
ScaleSequence ==
    LET count == scale_args[1]
        min == scale_args[2]
    IN  /\ Len(files) = count
        /\ Len(jobs) = count
        /\ count = 1 => ScaleFactors = <<min>>
        /\ count > 1 =>
              /\ \A k \in 0..(count - 1) :
                    ScaleFactors[k + 1] = StressScale(scale_args, k)
              /\ ScaleFactors[1] = min
              /\ \A k \in 1..(count - 1) :
                    ScaleFactors[k] <= ScaleFactors[k + 1]

\* max - min and (count - 1)*(max - min) are floats: no operation of the
\* evaluation of the last value rounds
LastValueExact ==
    /\ IsFloat(scale_args[3] - scale_args[2])
    /\ IsFloat((scale_args[1] - 1) * (scale_args[3] - scale_args[2]))

\* C12 as claimed: the sequence law, and the last value is max
C12_ScaleSequenceLaw ==
    CreateJobsReturned =>
        /\ ScaleSequence
        /\ ScaleFactors[scale_args[1]] = scale_args[3]

\* C12 as amended: the sequence law, and the last value is max when its
\* evaluation does not round
C12_ScaleSequenceRounded ==
    CreateJobsReturned =>
        /\ ScaleSequence
        /\ LastValueExact => ScaleFactors[scale_args[1]] = scale_args[3]

\* three scale factors were produced and the last one is not max
C12_Witness ==
    /\ pc = "done"
    /\ scale_args[1] = 3
    /\ Len(files) = 3
    /\ ScaleFactors[3] # scale_args[3]
    /\ ScaleFactors[1] < ScaleFactors[2]

(***************************************************************************)
(* C13: every execution of run_plugin, whether it succeeds or aborts at    *)
(* any stage, prints the start message once and then exactly one           *)
(* '=== STRESS INPUT FINISHED ===' message, as its last message.           *)
(***************************************************************************)
\* run_plugin has returned, or an exception has ended it
RunOver == pc = "returned" \/ exc # ""

\* C13: the start message is the first message, and the one exit message
\* is the last message of every execution that is over
C13_TerminalStatus ==
    /\ out # <<>> => out[1] = StartMessage
    /\ TimesPrinted(StartMessage) <= 1
    /\ RunOver =>
          /\ TimesPrinted(StartMessage) = 1
          /\ TimesPrinted(ExitMessage) = 1
          /\ out[Len(out)] = ExitMessage

(***************************************************************************)
(* C14: every injected stress data line is '<instance>.<set_name>,'        *)
(* followed by exactly six values, each followed by a comma, the j-th      *)
(* value being the scale factor times the j-th component of the            *)
(* category's stress vector; the injection does not change the category's  *)
(* stored stress vector.                                                   *)
(***************************************************************************)
\* the data line of a category at a scale factor: the prefix, then six
\* times a value and a comma
DataLine(category, scale) ==
    StressLinePrefix(category)
      \o <<ToString(FlMul(scale, category.stress[1])), ",",
           ToString(FlMul(scale, category.stress[2])), ",",
           ToString(FlMul(scale, category.stress[3])), ",",
           ToString(FlMul(scale, category.stress[4])), ",",
           ToString(FlMul(scale, category.stress[5])), ",",
           ToString(FlMul(scale, category.stress[6])), ",">>

\* the lines of a file that are no line of the base deck and no line of
\* the header of the stress block
IsDataLine(line) ==
    /\ \A k \in 1..Len(base_deck) : base_deck[k] # line
    /\ line \notin {BlankCommentLine, PredefinedFieldsLine,
                    InitialConditionsLine}

\* every data line of every file is the line of a category at the scale
\* factor of the call that inserted it, and the file of a scale factor
\* holds the line of every category at that scale factor
ScaledDataLines ==
    \A f \in 1..Len(files) :
        /\ \A k \in 1..Len(files[f].lines) :
              IsDataLine(files[f].lines[k]) =>
                  \E pj \in AllCategories, g \in 1..f :
                      /\ Len(CategoryAt(pj).stress) = 6
                      /\ files[f].lines[k]
                           = DataLine(CategoryAt(pj), files[g].scale)
        /\ \A pj \in AllCategories :
              \E k \in 1..Len(files[f].lines) :
                  files[f].lines[k] = DataLine(CategoryAt(pj), files[f].scale)

\* C14: the data lines hold the scaled stresses, and no step of the stress
\* injection changes the mesh data
C14_StressScaling ==
    /\ []ScaledDataLines
    /\ [][pc = "create_jobs" => mesh_data' = mesh_data]_vars

\* the file of scale factor 2 holds the line of a category whose stress
\* is not zero, with the doubled values
C14_Witness ==
    \E f \in 1..Len(files), pj \in AllCategories :
        /\ files[f].scale = 2
        /\ CategoryAt(pj).stress[5] = 2
        /\ \E k \in 1..Len(files[f].lines) :
              /\ files[f].lines[k] = DataLine(CategoryAt(pj), 2)
              /\ files[f].lines[k][Len(files[f].lines[k]) - 3] = "4"

(***************************************************************************)
(* C15: when the script fails to load or defines no callable get_category, *)
(* characterize_mesh does not abort and every category of every instance   *)
(* with elements is a singleton, keyed by its element's label, so the      *)
(* instance has as many categories as elements.                            *)
(***************************************************************************)
\* the script does not load, or get_category is missing or not callable
NoClassifier ==
    \/ stress_script = BrokenScript
    \/ host.get_category \in {"undefined", "not_callable"}

\* one category of one element, keyed by the element's label
IsSingletonOfLabel(category) ==
    /\ Len(category.elems) = 1
    /\ category.id = <<ToString(category.elems[1].label)>>

\* the categories are singletons, one for each of the labels 1..n
SingletonsOf(categories, n) ==
    /\ Len(categories) = n
    /\ \A j \in 1..n : IsSingletonOfLabel(categories[j])
    /\ \A label \in 1..n :
          \E j \in 1..n : categories[j].elems[1].label = label

\* C15: without a classifier the stage raises nothing, returns None only
\* when no instance has an element, and returns singleton categories
C15_CategorizationDefault ==
    NoClassifier =>
        /\ exc = ""
        /\ ~categorize
        /\ pc = "characterize_mesh_none" =>
              \A k \in 1..Len(instances) : instances[k].n = 0
        /\ \A j \in 1..Len(part_mesh_data) :
              IsSingletonOfLabel(part_mesh_data[j])
        /\ pc = "characterize_mesh_return" =>
              \A k \in 1..Len(instances) :
                  instances[k].n > 0 =>
                      /\ ~mesh_data[k].none
                      /\ SingletonsOf(mesh_data[k].cats, instances[k].n)

\* the script did not load, its get_category would have put the two
\* elements of an instance in one category, and the stage has returned
C15_Witness ==
    /\ pc = "characterize_mesh_return"
    /\ stress_script = BrokenScript
    /\ host.get_category = "by_parity"
    /\ \E k \in 1..Len(instances) :
          /\ instances[k].n = 2
          /\ Len(mesh_data[k].cats) = 2

(***************************************************************************)
(* C16: in each output deck the stress data lines follow the '*Initial     *)
(* Conditions, type=STRESS' line directly, in the order of the iteration   *)
(* that produced them: the instances in the order of the mesh data, the    *)
(* categories of an instance in the order of the loop over them.           *)
(***************************************************************************)
\* the data lines of a call at a scale factor, in the order of the loops
\* over the instances and over keys()
DataLinesInIterationOrder(scale) ==
    Flatten([p \in 1..Len(mesh_data) |->
                IF mesh_data[p].none
                THEN <<>>
                ELSE [k \in 1..Len(mesh_data[p].korder) |->
                         DataLine(Keys(mesh_data[p])[k], scale)]])

\* the 1-based position of the marker line a call inserts
MarkerPosition == line_index + (IF predefined THEN 0 ELSE 3) + 1

\* C16: in every file the lines after the marker line of the file's call
\* are the data lines of that call in iteration order
C16_DataLineOrder ==
    \A f \in 1..Len(files) :
        LET data == DataLinesInIterationOrder(files[f].scale)
        IN  /\ files[f].lines[MarkerPosition] = InitialConditionsLine
            /\ SubSeq(files[f].lines, MarkerPosition + 1,
                      MarkerPosition + Len(data)) = data

(***************************************************************************)
(* C17: inject_element_sets never deletes, rewrites or reorders a line of  *)
(* the deck: the buffer without the inserted '*Elset' header lines and     *)
(* label lines is the original deck, line for line, and the line index     *)
(* returned lies after every inserted line.                                *)
(***************************************************************************)
\* line is a line of an element-set block: an '*Elset' header, or labels
\* that are each followed by a comma (no line of the deck as read is)
IsBlockLine(line) ==
    \/ StartsWith(line, ElsetPrefix)
    \/ Len(line) >= 2 /\ line[2] = ","

\* buf without the lines of the element-set blocks
RECURSIVE WithoutBlockLines(_)
WithoutBlockLines(buf) ==
    IF buf = <<>> THEN <<>>
    ELSE IF IsBlockLine(Head(buf)) THEN WithoutBlockLines(Tail(buf))
    ELSE <<Head(buf)>> \o WithoutBlockLines(Tail(buf))

\* C17: during the scan and on its return the buffer without the block
\* lines is the deck as read; the index returned is past all block lines
C17_InsertOnly ==
    /\ \A k \in 1..Len(input0) : ~IsBlockLine(input0[k])
    /\ pc = "inject_element_sets" => WithoutBlockLines(default_input) = input0
    /\ ScannerReturned =>
          /\ WithoutBlockLines(base_deck) = input0
          /\ scan_end <= Len(base_deck)
          /\ \A k \in 1..Len(base_deck) :
                IsBlockLine(base_deck[k]) => k - 1 < scan_end

\* the scanner has returned after inserting the blocks of two instances
\* before lines of the deck
C17_Witness ==
    /\ pc = "find_stress_injection_line"
    /\ Len(injections) = 2
    /\ Len(base_deck) > Len(input0) + 4
    /\ ~IsBlockLine(base_deck[Len(base_deck)])
    /\ \E k \in 1..Len(base_deck) : IsBlockLine(base_deck[k])

(***************************************************************************)
(* C18: the stages run strictly in the order checks, characterize, assign  *)
(* stress, inject element sets (once per run), inject stress field (once   *)
(* per scale factor, one after the other); when run_checks returns False,  *)
(* or characterize_mesh or define_stresses returns no mesh data, no later  *)
(* stage is entered, no deck file is written and no job is created.        *)
(***************************************************************************)
\* the stage a position of the run belongs to
StageRank(p) ==
    IF p = "run_plugin" THEN 0
    ELSE IF p = "run_checks" THEN 1
    ELSE IF p \in {"characterize_mesh", "characterize_mesh_loop",
                   "characterize_mesh_none", "characterize_mesh_return"} THEN 2
    ELSE IF p \in {"define_stresses", "define_stresses_loop",
                   "define_stresses_none", "define_stresses_return"} THEN 3
    ELSE IF p = "inject_element_sets" THEN 4
    ELSE IF p = "find_stress_injection_line" THEN 5
    ELSE IF p = "create_jobs" THEN 6
    ELSE IF p = "done" THEN 7
    ELSE IF p = "exit_message" THEN 8
    ELSE 9

\* no deck was read or written and no job was created
NoDeckWork ==
    /\ ~Printed("> Generating input files")
    /\ default_input = <<>> /\ input0 = <<>>
    /\ injections = <<>>
    /\ files = <<>>
    /\ jobs = <<>>

\* run_checks returned False
ChecksReturnedFalse ==
    ChecksOver /\ exc = "" /\ ~Printed("-> Checks passed")

\* characterize_mesh returned None
CharacterizeReturnedNone ==
    \/ pc = "characterize_mesh_none"
    \/ Printed("-> No mesh present, aborting")
    \/ Printed("-> Function \"get_category\" failed for element, aborting")

\* define_stresses returned None
DefineReturnedNone ==
    \/ pc = "define_stresses_none"
    \/ Printed("---> Stress script threw an error")

\* a stage is entered only after the stages before it are complete, and
\* an aborted stage is followed by no other
StagesInOrder ==
    /\ StageRank(pc) >= 2 /\ StageRank(pc) <= 7 => Printed("-> Checks passed")
    /\ Printed("> Characterizing mesh") => Printed("-> Checks passed")
    /\ ChecksReturnedFalse => NoMeshOrDeckWork
    /\ (StageRank(pc) >= 3 /\ StageRank(pc) <= 7) \/ calls # <<>> =>
          /\ instance_index = Len(instances)
          /\ ~no_mesh
          /\ ~CharacterizeReturnedNone
    /\ CharacterizeReturnedNone => calls = <<>> /\ NoDeckWork
    /\ (StageRank(pc) >= 4 /\ StageRank(pc) <= 7) \/ ~NoDeckWork =>
          /\ part_index = Len(mesh_data)
          /\ Len(calls) = Cardinality(AllCategories)
          /\ ~DefineReturnedNone
    /\ DefineReturnedNone => NoDeckWork
    /\ TimesPrinted("> Generating input files") <= 1
    /\ files # <<>> \/ jobs # <<>> =>
          /\ scan_end >= 0
          /\ sets_to_inject = <<>>
          /\ line_index >= scan_end
    /\ Len(files) = i /\ Len(jobs) = i
    /\ i <= scale_args[1]
    /\ \A k \in 1..Len(files) :
          files[k].scale = StressScale(scale_args, k - 1)
    /\ CreateJobsReturned /\ ~NoDeckWork => Len(files) = scale_args[1]

\* C18: the stages are in order in every state, and no step goes back to
\* an earlier stage
C18_StageOrdering ==
    /\ []StagesInOrder
    /\ [][StageRank(pc') >= StageRank(pc)]_vars

\* a run has gone through all stages, written two files and returned
C18_Witness ==
    /\ pc = "returned"
    /\ Len(files) = 2
    /\ Len(jobs) = 2
    /\ Len(injections) = 2
    /\ calls # <<>>

(***************************************************************************)
(* C19: when the scale inputs are valid and a model is active but the      *)
(* default job name is not empty and is no key of the host's job registry, *)
(* run_checks prints 'Invalid default job' and returns False, and the run  *)
(* ends before any mesh work.                                              *)
(***************************************************************************)
UnknownDefaultJob ==
    /\ ~ScaleInputsInvalid
    /\ host.models # {}
    /\ host.default_job # ""
    /\ host.default_job \notin host.jobs

\* C19: for an unknown default job run_checks reports it and returns
\* False, and no mesh or deck work is done
C19_InvalidDefaultJob ==
    UnknownDefaultJob /\ ChecksOver =>
        /\ exc = ""
        /\ Printed("-> Invalid default job")
        /\ ~Printed("-> Checks passed")
        /\ NoMeshOrDeckWork

(***************************************************************************)
(* C20: if a defined get_category raises for an element of an instance,    *)
(* characterize_mesh returns None for the whole run, never mesh data in    *)
(* which some elements of an instance are categorized and others are not,  *)
(* and neither stress assignment nor any deck injection follows.           *)
(***************************************************************************)
\* characterize_mesh is over, and get_category was called for an element
\* for which it raises
ClassifierRaised ==
    /\ categorize
    /\ host.get_category = "raises"
    /\ \E k \in 1..Len(instances) : instances[k].n >= 2
    /\ pc \notin {"characterize_mesh", "characterize_mesh_loop"} \/ exc # ""

\* C20: after get_category raised the stage has returned None, and no
\* stress was assigned and no deck work done
C20_ClassifierFailureFatal ==
    ClassifierRaised =>
        /\ exc = ""
        /\ Printed("-> Function \"get_category\" failed for element, aborting")
        /\ pc \in {"characterize_mesh_none", "exit_message", "returned"}
        /\ calls = <<>>
        /\ NoDeckWork

(***************************************************************************)
(* C21: after characterize_mesh succeeds, the categories of every instance *)
(* with elements partition its elements (every element is a member of      *)
(* exactly one category of its own instance's map, in discovery order),    *)
(* all members of a category carry the part name and the instance          *)
(* identifier of the category, and a slot of the mesh data is absent if    *)
(* and only if its instance has no element.                                *)
(***************************************************************************)
\* how often the element of a label is a member of a category of the slot
Memberships(slot, label) ==
    Cardinality(UNION { {<<j, m>> : m \in {n \in 1..Len(slot.cats[j].elems) :
                                      slot.cats[j].elems[n].label = label}} :
                        j \in 1..Len(slot.cats) })

\* the members of the category are in the order of their discovery (the
\* elements are visited in the order of their labels) and carry its part
\* name and instance identifier, which are those of the instance
MembersOfCategory(category, instance) ==
    /\ category.elems # <<>>
    /\ category.part = instance.part
    /\ category.inst = instance.key
    /\ \A m \in 1..Len(category.elems) :
          /\ category.elems[m].part = category.part
          /\ category.elems[m].inst = category.inst
          /\ category.elems[m].label \in 1..instance.n
    /\ \A m \in 1..(Len(category.elems) - 1) :
          category.elems[m].label < category.elems[m + 1].label

\* C21: on the return of the mesh data a slot is None exactly for the
\* instances without elements, and the categories of every other slot
\* partition the instance's elements
C21_CategoryModel ==
    pc = "characterize_mesh_return" =>
        /\ Len(mesh_data) = Len(instances)
        /\ \A k \in 1..Len(instances) :
              /\ mesh_data[k].none <=> instances[k].n = 0
              /\ instances[k].n > 0 =>
                    /\ \A label \in 1..instances[k].n :
                          Memberships(mesh_data[k], label) = 1
                    /\ \A j \in 1..Len(mesh_data[k].cats) :
                          MembersOfCategory(mesh_data[k].cats[j],
                                            instances[k])
                    /\ \A j1, j2 \in 1..Len(mesh_data[k].cats) :
                          mesh_data[k].cats[j1].id = mesh_data[k].cats[j2].id
                            => j1 = j2

\* the mesh data returned has a None slot beside an instance whose two
\* elements share a category
C21_Witness ==
    /\ pc = "characterize_mesh_return"
    /\ Len(mesh_data) = 2
    /\ mesh_data[1].none
    /\ ~mesh_data[2].none
    /\ Len(mesh_data[2].cats) = 1
    /\ Len(mesh_data[2].cats[1].elems) = 2

(***************************************************************************)
(* C22: for every input accepted by run_checks the generated scale         *)
(* factors are pairwise distinct (strictly increasing when count > 1), so  *)
(* the output file names 'stress_input_scale_<value>.inp' of one run are   *)
(* pairwise distinct and no scale's deck overwrites another's; exactly     *)
(* count files and count jobs are produced.                                *)
(***************************************************************************)
\* the names of the files on disk: open(name, 'w') at line 434 truncates a
\* file of the same name, so a name stands for the last deck written to it
FilesOnDisk == {files[k].name : k \in 1..Len(files)}

\* the names of the jobs created
JobNames == {jobs[k].name : k \in 1..Len(jobs)}

\* C22: when create_jobs has returned, the scale factors increase strictly,
\* no two writes went to the same file name, and count files and count
\* jobs exist
C22_DistinctOutputs ==
    CreateJobsReturned =>
        /\ Len(files) = scale_args[1]
        /\ \A k \in 1..(Len(files) - 1) :
              ScaleFactors[k] < ScaleFactors[k + 1]
        /\ \A k1, k2 \in 1..Len(files) :
              files[k1].name = files[k2].name => k1 = k2
        /\ Cardinality(FilesOnDisk) = scale_args[1]
        /\ Len(jobs) = scale_args[1]
        /\ Cardinality(JobNames) = scale_args[1]
====
